---- MODULE Spec2Model ----
(***************************************************************************)
(* A model of the twitterbot_x polling bot: the sliding-window RateLimiter *)
(* (src/main.py), the retrying TwitterClient._make_request and the         *)
(* client's domain operations (src/twitter_client.py), AIClient's          *)
(* get_response and its truncation (src/ai_client.py), MentionProcessor's  *)
(* process_mention (src/mention_processor.py) and the TwitterBot scheduler *)
(* with its main loop (src/main.py).  Time is the integer number of        *)
(* seconds read by time.time(); a sleep advances it (the half-second poll  *)
(* sleeps of AIClient are counted in milliseconds and the clock keeps the  *)
(* whole seconds).  A task of the main loop runs from its gate to its      *)
(* return in one step, unless the operator's interrupt stops it at one of  *)
(* its awaits.                                                             *)
(***************************************************************************)
EXTENDS Integers, Sequences, FiniteSets, TLC

VARIABLES
    now,                 \* time.time()
    \* --- one RateLimiter driven directly by callers (SpecLimiter, SpecShared)
    rl,                  \* the limiter: requests_per_window, window_seconds, requests
    callers,             \* caller -> its position inside acquire()
    admissions,          \* history: the instants acquire() appended, in order
    started,             \* history: number of acquire() calls begun
    \* --- one activation chain of TwitterClient._make_request (SpecRequest)
    req,
    \* --- the TwitterBot and main() (Spec, SpecDirect, SpecRetention)
    pc,                  \* position of main() in its loop
    processed_tweets,    \* TwitterBot.processed_tweets
    last_processed_time, \* TwitterBot.last_processed_time
    limiters,            \* the four RateLimiter.requests deques of the bot
    log,                 \* history: Processor calls, retweets and dedup adds
    ran,                 \* history: what the last gate/task step did
    budget,              \* what the platform may still answer with: non-empty
                         \* responses, or items in SpecSearch
    config,              \* Config.ACCOUNTS_TO_MONITOR and Config.ACCOUNTS_TO_RETWEET
    \* --- the TwitterClient's domain operations (SpecGateway)
    gw,                  \* TwitterClient.user_id and the outcome of the last call
    \* --- AIClient.get_response (SpecReply)
    reply,               \* the cleaned text and what get_response returns for it
    \* --- one call of AIClient.get_response (SpecRun)
    ai,                  \* its position, the run statuses it read, its result
    \* --- MentionProcessor.process_mention called directly (SpecProcessor)
    pm                   \* history: the calls made so far and the last one

vars == <<now, rl, callers, admissions, started, req, pc, processed_tweets,
          last_processed_time, limiters, log, ran, budget, config, gw, reply,
          ai, pm>>

limiterVars == <<rl, callers, admissions, started>>
botVars == <<pc, processed_tweets, last_processed_time, limiters, log, ran, budget>>
clientVars == <<gw, reply, ai, pm>>

Max(a, b) == IF a >= b THEN a ELSE b

(***************************************************************************)
(* Bounds of the model.                                                    *)
(***************************************************************************)
MaxCapacity == 2      \* RateLimiter capacities 1..MaxCapacity
MaxWindow == 3        \* RateLimiter windows 1..MaxWindow
MaxClock == 7         \* the limiter specifications stop the clock here
MaxAcquires == 4      \* acquire() calls begun in a limiter specification
MaxAttempts == 7      \* HTTP attempts of one _make_request chain
MaxJitter == 1        \* seconds asyncio.sleep may oversleep in _make_request

(***************************************************************************)
(* RateLimiter (src/main.py:16-33).                                        *)
(***************************************************************************)
\* __init__: an empty deque.
NewLimiter(c, w) ==
    [requests_per_window |-> c, window_seconds |-> w, requests |-> <<>>]

\* acquire, lines 24-25: popleft while the oldest entry is <= now - window.
RECURSIVE Prune(_, _, _)
Prune(reqs, w, t) ==
    IF reqs # <<>> /\ reqs[1] <= t - w THEN Prune(Tail(reqs), w, t) ELSE reqs

\* A plausible slip: waiting one second less than the window requires.
WaitTimeShort(reqs, w, t) == reqs[1] + w - t - 1

\* acquire, line 28: wait_time = requests[0] + window_seconds - now.
WaitTime(reqs, w, t) == reqs[1] + w - t

\* A plausible slip: suspending while one slot of the window is still free.
SleepNeededOffByOne(reqs, c, w, t) ==
    IF Len(reqs) >= c - 1 /\ reqs # <<>> /\ WaitTime(reqs, w, t) > 0
    THEN WaitTime(reqs, w, t) ELSE 0

\* acquire, lines 27-31: the sleep acquire asks for (0: none) on pruned deque.
SleepNeeded(reqs, c, w, t) ==
    IF Len(reqs) >= c /\ WaitTime(reqs, w, t) > 0 THEN WaitTime(reqs, w, t) ELSE 0

\* acquire() up to its await: prune, then either append at once (no suspension
\* point is crossed) or suspend in asyncio.sleep(wait_time).
AcquireBegin(c) ==
    /\ callers[c].at = "idle"
    /\ started < MaxAcquires
    /\ started' = started + 1
    /\ LET pruned == Prune(rl.requests, rl.window_seconds, now)
           wait == SleepNeeded(pruned, rl.requests_per_window, rl.window_seconds, now)
       IN IF wait > 0
          THEN /\ rl' = [rl EXCEPT !.requests = pruned]
               /\ callers' = [callers EXCEPT ![c] = [at |-> "sleeping", wake |-> now + wait]]
               /\ UNCHANGED admissions
          ELSE /\ rl' = [rl EXCEPT !.requests = Append(pruned, now)]
               /\ admissions' = Append(admissions, now)
               /\ UNCHANGED callers
    /\ UNCHANGED <<now, req>> /\ UNCHANGED botVars /\ UNCHANGED clientVars
    /\ UNCHANGED config

\* A plausible slip: returning after the sleep without recording the call.
AcquireResumeNoAppend(c) ==
    /\ callers[c].at = "sleeping"
    /\ now >= callers[c].wake
    /\ callers' = [callers EXCEPT ![c] = [at |-> "idle", wake |-> 0]]
    /\ UNCHANGED <<now, rl, admissions, started, req>>
    /\ UNCHANGED botVars /\ UNCHANGED clientVars
    /\ UNCHANGED config

\* acquire() after its await, line 33: append time.time(), with no second look
\* at the deque.  asyncio.sleep returns at or after the requested instant.
AcquireResume(c) ==
    /\ callers[c].at = "sleeping"
    /\ now >= callers[c].wake
    /\ rl' = [rl EXCEPT !.requests = Append(rl.requests, now)]
    /\ admissions' = Append(admissions, now)
    /\ callers' = [callers EXCEPT ![c] = [at |-> "idle", wake |-> 0]]
    /\ UNCHANGED <<now, started, req>> /\ UNCHANGED botVars /\ UNCHANGED clientVars
    /\ UNCHANGED config

\* One second passes.  The clock stops at MaxClock unless a caller is still
\* inside asyncio.sleep: a sleep always ends.
ClockTick ==
    /\ \/ now < MaxClock
       \/ \E c \in DOMAIN callers : callers[c].at = "sleeping" /\ now < callers[c].wake
    /\ now' = now + 1
    /\ UNCHANGED <<req>> /\ UNCHANGED limiterVars /\ UNCHANGED botVars /\ UNCHANGED clientVars
    /\ UNCHANGED config

(***************************************************************************)
(* TwitterClient._make_request (src/twitter_client.py:23-53).              *)
(***************************************************************************)
MAX_RETRIES == 3
RATE_LIMIT_FLOOR == 60
DEFAULT_RESET == 900

NoHeader == -1

\* What one HTTP attempt can come back with: a 2xx body, a 429 whose
\* x-rate-limit-reset header is `reset` seconds ahead (NoHeader: absent), or
\* any other failure (exception, non-2xx status, body that is not JSON).
Responses ==
    {[status |-> "ok", reset |-> NoHeader], [status |-> "error", reset |-> NoHeader]}
    \cup {[status |-> "429", reset |-> r] : r \in {NoHeader, 30, 90}}

\* line 36: reset_time = int(headers.get('x-rate-limit-reset', time.time() + 900)).
ResetTime(resp, t) == IF resp.reset = NoHeader THEN t + DEFAULT_RESET ELSE t + resp.reset

\* A plausible slip: sleeping until the reset time with no floor.
RateLimitSleepNoFloor(reset_time, t) == reset_time - t

\* line 38: sleep_time = max(reset_time - current_time, 60).
RateLimitSleep(reset_time, t) == Max(reset_time - t, RATE_LIMIT_FLOOR)

\* A plausible slip: <= in place of <.
MayRetryOffByOne(retry_count) == retry_count <= MAX_RETRIES

\* line 48: if retry_count < Config.MAX_RETRIES.
MayRetry(retry_count) == retry_count < MAX_RETRIES

\* line 49: sleep_time = math.pow(2, retry_count).
BackoffSleep(retry_count) == 2 ^ retry_count

ReqIdle ==
    [at |-> "idle", retry_count |-> 0, wake |-> 0, next_retry |-> 0, result |-> "pending",
     attempts |-> 0, generic |-> 0, limited |-> 0,
     prev |-> [status |-> "none", at |-> 0, reset_time |-> 0]]

\* A caller invokes _make_request(method, endpoint, ...): retry_count = 0.
MakeRequest ==
    /\ req.at = "idle"
    /\ req' = [req EXCEPT !.at = "attempt", !.retry_count = 0]
    /\ UNCHANGED now /\ UNCHANGED limiterVars /\ UNCHANGED botVars /\ UNCHANGED clientVars
    /\ UNCHANGED config

\* One activation's HTTP attempt and what it decides (lines 25-53).
\*   2xx: return response.json().
\*   429: sleep max(reset - now, 60), then call _make_request again WITHOUT
\*        retry_count, so the new activation starts at retry_count = 0 (line 41).
\*   failure: if retry_count < MAX_RETRIES sleep 2^retry_count and call again
\*        with retry_count + 1 (line 52); else return None (line 53).
\* A None or a body coming back from the inner activation is returned as is.
Attempt(resp) ==
    /\ req.at = "attempt"
    /\ req.attempts < MaxAttempts
    /\ LET counted == [req EXCEPT !.attempts = @ + 1,
                                  !.prev = [status |-> resp.status, at |-> now,
                                            reset_time |-> ResetTime(resp, now)]]
       IN req' =
            CASE resp.status = "ok" ->
                   [counted EXCEPT !.at = "done", !.result = "json"]
              [] resp.status = "429" ->
                   [counted EXCEPT !.at = "sleeping", !.limited = @ + 1,
                                   !.wake = now + RateLimitSleep(ResetTime(resp, now), now),
                                   !.next_retry = 0]
              [] OTHER ->
                   IF MayRetry(req.retry_count)
                   THEN [counted EXCEPT !.at = "sleeping", !.generic = @ + 1,
                                        !.wake = now + BackoffSleep(req.retry_count),
                                        !.next_retry = req.retry_count + 1]
                   ELSE [counted EXCEPT !.at = "done", !.generic = @ + 1,
                                        !.result = "None"]
    /\ UNCHANGED now /\ UNCHANGED limiterVars /\ UNCHANGED botVars /\ UNCHANGED clientVars
    /\ UNCHANGED config

\* asyncio.sleep(sleep_time) returns and the recursive activation begins.
SleepReturns(jitter) ==
    /\ req.at = "sleeping"
    /\ now' = Max(now, req.wake) + jitter
    /\ req' = [req EXCEPT !.at = "attempt", !.retry_count = req.next_retry]
    /\ UNCHANGED limiterVars /\ UNCHANGED botVars /\ UNCHANGED clientVars
    /\ UNCHANGED config

(***************************************************************************)
(* Configuration (src/config.py) and the constants written in src/main.py. *)
(***************************************************************************)
wachmc == <<"w", "a", "c", "h", "m", "c">>
ACCOUNTS_TO_MONITOR == <<wachmc>>
ACCOUNTS_TO_RETWEET == <<wachmc>>

\* The two account lists as config.py sets them.
Config ==
    [ACCOUNTS_TO_MONITOR |-> ACCOUNTS_TO_MONITOR, ACCOUNTS_TO_RETWEET |-> ACCOUNTS_TO_RETWEET]
HASHTAGS_TO_MONITOR == <<"#alephium">>
MIN_LIKES_THRESHOLD == 25
ERROR_DELAY == 300
DEFAULT_MENTION_AGE_LIMIT == 180     \* minutes
RECENT_MINUTES == 5                  \* is_tweet_recent's default max_age_minutes
LOOP_SLEEP == 60
RETENTION == 3600
TWO_HOURS == 7200
ACCOUNTS_GUARD == 900
MENTIONS_GUARD == 180
HASHTAGS_GUARD == 900
TWEET_PAUSE == 15
ACCOUNT_PAUSE == 30
MENTION_PAUSE == 5
HASHTAG_PAUSE == 10
MAX_MENTIONS == 3
MAX_PER_HASHTAG == 3

\* TwitterBot.__init__, lines 57-61.
check_intervals == [mentions |-> 180, accounts |-> 900, hashtags |-> 1800]

\* TwitterBot.__init__, lines 44-47: RateLimiter(requests_per_window, window_seconds).
LimiterConfig ==
    [user_tweets |-> [c |-> 10, w |-> 900], mentions |-> [c |-> 5, w |-> 900],
     search |-> [c |-> 5, w |-> 900], retweet |-> [c |-> 3, w |-> 900]]

Tasks == {"mentions", "accounts", "hashtags"}

(***************************************************************************)
(* What the platform can answer.  An id is the number float(tweet_id)      *)
(* yields.  EpochId is an id of the kind cleanup_processed_tweets assumes: *)
(* the tweet's creation time in epoch seconds, here 3000 s before main()   *)
(* starts.  BigId lies far above the clock, as a snowflake id does.  NoId  *)
(* stands for an item without an 'id' key.                                 *)
(***************************************************************************)
StartTime == 1000000     \* time.time() when main() starts
Horizon == 1000          \* no tick starts later than StartTime + Horizon
LongHorizon == 3700      \* the same for SpecRetention
Budget == 2              \* non-empty API responses in a run of Spec
LongBudget == 1          \* the same for SpecRetention
DirectBudget == 1        \* the same for SpecDirect
DirectHorizon == 900     \* SpecDirect advances the clock no further
MaxAwaits == 12          \* an interrupt lands at one of a task's first 13 awaits
EpochAge == 3000
EpochId == StartTime - EpochAge
BigId == 2000000000
NoId == -1
NoMetrics == -1
FromId == -1
Ids == {EpochId, BigId}

NoneName == <<"None">>
bob == <<"b", "o", "b">>
WachMC_fan == <<"W", "a", "c", "h", "M", "C", "_", "f", "a", "n">>

\* age: seconds between created_at and the fetch (FromId: created_at = id).
\* What the services answer while the bot handles one item: get_response's
\* value, create_tweet's value and retweet's value.  Served: all succeed.
Served == [response |-> "text", created |-> "True", retweet |-> "True"]

Item(id, age, username, likes) ==
    [id |-> id, age |-> age, username |-> username, likes |-> likes,
     text |-> "text", answers |-> Served]

\* GET /users/:id/tweets answers for one account.
AccountFeeds ==
    {<<>>, <<Item(EpochId, FromId, wachmc, NoMetrics)>>,
     <<Item(BigId, 100, wachmc, NoMetrics)>>,
     <<Item(BigId, 100, wachmc, NoMetrics), Item(NoId, 100, wachmc, NoMetrics)>>,
     <<Item(BigId, 8000, wachmc, NoMetrics)>>}

\* GET /users/:id/mentions answers.
MentionFeeds ==
    {<<>>, <<Item(BigId, 60, bob, NoMetrics)>>, <<Item(BigId, 600, bob, NoMetrics)>>,
     <<Item(EpochId, FromId, bob, NoMetrics)>>,
     <<Item(BigId, 60, bob, NoMetrics), Item(NoId, 60, bob, NoMetrics)>>}

\* GET /tweets/search/recent answers, each item with the like_count that
\* GET /tweets/:id will report for it (NoMetrics: that request fails).
HashtagFeeds ==
    {<<>>, <<Item(BigId, 100, bob, 30)>>, <<Item(EpochId, FromId, bob, 30)>>,
     <<Item(BigId, 100, bob, 10)>>, <<Item(BigId, 100, bob, NoMetrics)>>,
     <<Item(BigId, 100, WachMC_fan, 30)>>, <<Item(BigId, 100, NoneName, 30)>>}

\* The payload of a response received at time t: created_at is absolute.
Stamp(feed, t) ==
    [i \in DOMAIN feed |->
        [id |-> feed[i].id,
         created_at |-> IF feed[i].age = FromId THEN feed[i].id ELSE t - feed[i].age,
         username |-> feed[i].username, likes |-> feed[i].likes,
         text |-> feed[i].text, answers |-> feed[i].answers]]

Cost(feed) == IF feed = <<>> THEN 0 ELSE 1

(***************************************************************************)
(* The bot's state as a value, and the steps of its task bodies.           *)
(***************************************************************************)
BotState ==
    [now |-> now, processed_tweets |-> processed_tweets,
     last_processed_time |-> last_processed_time, limiters |-> limiters, log |-> log,
     config |-> config, armed |-> FALSE, awaits |-> 0, stopped |-> FALSE, fetched |-> 0]

\* The same state, with a KeyboardInterrupt due at the (k+1)-th await at which
\* the task suspends.
InterruptAt(s, k) == [s EXCEPT !.armed = TRUE, !.awaits = k]

\* An await that suspends the coroutine: the event loop runs, and the
\* KeyboardInterrupt of src/main.py:243-246, if it is due, is raised there.
\* Once stopped, the rest of the body is not executed.
Await(s) ==
    IF s.stopped \/ ~s.armed THEN s
    ELSE IF s.awaits = 0 THEN [s EXCEPT !.stopped = TRUE]
    ELSE [s EXCEPT !.awaits = @ - 1]

\* An awaited call of the platform that is answered with `feed`: the coroutine
\* suspends; unless it is stopped there, the answer is consumed.
Fetch(s, feed) ==
    LET a == Await(s)
    IN IF a.stopped THEN a ELSE [a EXCEPT !.fetched = @ + Cost(feed)]

Done(s) == [st |-> s, raised |-> FALSE]
Raise(s) == [st |-> s, raised |-> TRUE]

\* An entry of the history.  ok: whether the reply was published (process),
\* the retweet made (retweet), the admission immediate (acquire); for an
\* acquire entry `task` names the limiter.
RecordOutcome(s, ev, id, task, ok) ==
    IF s.stopped THEN s
    ELSE [s EXCEPT !.log = Append(@, [ev |-> ev, id |-> id, at |-> s.now, task |-> task,
                                      ok |-> ok])]

Record(s, ev, id, task) == RecordOutcome(s, ev, id, task, TRUE)

\* A plausible slip: recording the call without waiting for room.
AcquireNoWait(s, name) ==
    IF s.stopped THEN s
    ELSE RecordOutcome([s EXCEPT !.limiters[name] = Append(@, s.now)],
                  "acquire", NoId, name, TRUE)

\* await limiter.acquire() from the scheduler's single coroutine
\* (src/main.py:22-33): the old admissions are dropped; the sleep, if there
\* is one, suspends the coroutine and then passes; the admission is appended.
\* The history gets an entry named after the limiter, at the instant of the
\* admission.
Acquire(s, name) ==
    LET c == LimiterConfig[name].c
        w == LimiterConfig[name].w
        pruned == Prune(s.limiters[name], w, s.now)
        wait == SleepNeeded(pruned, c, w, s.now)
        popped == [s EXCEPT !.limiters[name] = pruned]
        woken == IF wait > 0 THEN Await(popped) ELSE popped
    IN IF s.stopped THEN s
       ELSE IF woken.stopped THEN woken
       ELSE RecordOutcome([woken EXCEPT !.limiters[name] = Append(pruned, s.now + wait),
                                        !.now = s.now + wait],
                          "acquire", NoId, name, wait = 0)

\* A plausible slip: a sleep that is not awaited.
SleepNotAwaited(s, d) == s

\* await asyncio.sleep(d): the coroutine suspends, then d seconds pass.
Sleep(s, d) ==
    LET a == Await(s)
    IN IF a.stopped THEN a ELSE [a EXCEPT !.now = @ + d]

(***************************************************************************)
(* MentionProcessor.process_mention (src/mention_processor.py:58-79) as a  *)
(* function of the mention, of what get_response does (raises, or returns  *)
(* None, "" or a text) and of what create_tweet does (raises, or returns   *)
(* False or True).                                                         *)
(***************************************************************************)
NoText == "NoText"    \* the mention has no 'text' key
AiAnswers == {"raises", "None", "", "text"}
PostAnswers == {"raises", "False", "True"}

\* A plausible slip: `if response is not None`, which lets "" through.
TruthyNotNone(response) == response # "None"

\* line 70: `if response:`.
Truthy(response) == response \notin {"None", ""}

\* lines 60-76, the body of the try: how many times each service is called,
\* whether a reply was published, whether the body raised.
ProcessMentionBody(mention, response, created) ==
    LET absent == mention.id = NoId \/ mention.text = NoText
        asked == ~absent
        posts == asked /\ response # "raises" /\ Truthy(response)
    IN [get_response |-> IF asked THEN 1 ELSE 0,
        create_tweet |-> IF posts THEN 1 ELSE 0,
        published |-> posts /\ created = "True",
        raised |-> \/ absent
                   \/ asked /\ response = "raises"
                   \/ posts /\ created = "raises"]

\* A plausible slip: a handler that logs and raises again.
ProcessMentionReraise(mention, response, created) ==
    LET body == ProcessMentionBody(mention, response, created)
    IN [get_response |-> body.get_response, create_tweet |-> body.create_tweet,
        published |-> body.published, caught |-> body.raised, raised |-> body.raised]

\* lines 59 and 78-79: `except Exception` logs; process_mention returns None.
ProcessMentionCall(mention, response, created) ==
    LET body == ProcessMentionBody(mention, response, created)
    IN [get_response |-> body.get_response, create_tweet |-> body.create_tweet,
        published |-> body.published, caught |-> body.raised, raised |-> FALSE]

\* await self.processor.process_mention(tweet) in the scheduler: the call
\* returns, whatever the services answered for the tweet.
ProcessMention(s, tweet, task) ==
    RecordOutcome(Await(s), "process", tweet.id, task,
                  ProcessMentionCall(tweet, tweet.answers.response,
                                     tweet.answers.created).published)

\* A plausible slip: marking an item seen only when the attempt before the
\* add (the last entry of the log) succeeded.
MarkSeenOnSuccess(s, id, task) ==
    IF s.stopped \/ (s.log # <<>> /\ ~s.log[Len(s.log)].ok) THEN s
    ELSE Record([s EXCEPT !.processed_tweets = @ \cup {id}], "add", id, task)

\* A plausible slip: logging the add without performing it.
MarkSeenForgets(s, id, task) == Record(s, "add", id, task)

\* self.processed_tweets.add(tweet['id']).
MarkSeen(s, id, task) ==
    IF s.stopped THEN s
    ELSE Record([s EXCEPT !.processed_tweets = @ \cup {id}], "add", id, task)

Contains(list, x) == \E i \in DOMAIN list : list[i] = x

(***************************************************************************)
(* process_accounts (src/main.py:73-123).                                  *)
(***************************************************************************)
\* TwitterClient.get_user_tweets (src/twitter_client.py:233-266): the tweets
\* created after two_hours_ago; [] on any failure.
GetUserTweets(payload, t) ==
    SelectSeq(payload, LAMBDA tw : tw.created_at > t - TWO_HOURS)

\* lines 92-115: the loop over one account's tweets.
RECURSIVE AccountTweets(_, _, _, _)
AccountTweets(s, username, tweets, two_hours_ago) ==
    IF tweets = <<>> THEN Done(s)
    ELSE LET tweet == Head(tweets)
             rest == Tail(tweets)
         IN IF tweet.id = NoId THEN Raise(s)
            ELSE IF tweet.id \in s.processed_tweets
            THEN AccountTweets(s, username, rest, two_hours_ago)
            ELSE IF tweet.created_at <= two_hours_ago
            THEN AccountTweets(s, username, rest, two_hours_ago)
            ELSE LET s1 == IF Contains(s.config.ACCOUNTS_TO_MONITOR, username)
                           THEN ProcessMention(s, tweet, "accounts") ELSE s
                     s2 == IF Contains(s.config.ACCOUNTS_TO_RETWEET, username)
                           THEN RecordOutcome(Await(Acquire(s1, "retweet")), "retweet", tweet.id,
                                              "accounts", tweet.answers.retweet = "True")
                           ELSE s1
                     s3 == Sleep(MarkSeen(s2, tweet.id, "accounts"), TWEET_PAUSE)
                 IN AccountTweets(s3, username, rest, two_hours_ago)

\* lines 80-121: one account.  An empty answer skips the pause (continue); an
\* exception inside the try is caught and followed by the same 30 s sleep.
AccountVisit(s, username, feed) ==
    LET s1 == Fetch(Acquire(s, "user_tweets"), feed)
        tweets == GetUserTweets(Stamp(feed, s1.now), s1.now)
    IN IF tweets = <<>> THEN s1
       ELSE LET r == AccountTweets(s1, username, tweets, s1.now - TWO_HOURS)
            IN IF r.raised THEN Sleep(Record(r.st, "caught", NoId, "accounts"), ACCOUNT_PAUSE)
               ELSE Sleep(r.st, ACCOUNT_PAUSE)

\* A plausible slip: a loop that ends after its first account.
AccountsLoopFirstOnly(s, usernames, feeds) ==
    IF usernames = <<>> THEN s ELSE AccountVisit(s, Head(usernames), Head(feeds))

\* line 79: for username in ACCOUNTS_TO_MONITOR + ACCOUNTS_TO_RETWEET.
RECURSIVE AccountsLoop(_, _, _)
AccountsLoop(s, usernames, feeds) ==
    IF usernames = <<>> THEN s
    ELSE AccountsLoop(AccountVisit(s, Head(usernames), Head(feeds)),
                      Tail(usernames), Tail(feeds))

\* A plausible slip: a guard that never skips.
AccountsTooSoonNever(s) == FALSE

\* line 74: time.time() - last_processed_time['accounts'] < 900.
AccountsTooSoon(s) == s.now - s.last_processed_time["accounts"] < ACCOUNTS_GUARD

\* The whole method; feeds holds one answer per visited account.
ProcessAccounts(s, feeds) ==
    IF AccountsTooSoon(s) THEN Done(s)
    ELSE LET after == AccountsLoop(s, s.config.ACCOUNTS_TO_MONITOR
                                         \o s.config.ACCOUNTS_TO_RETWEET, feeds)
         IN IF after.stopped THEN Done(after)
            ELSE Done([after EXCEPT !.last_processed_time["accounts"] = after.now])

(***************************************************************************)
(* process_mentions (src/main.py:125-140).                                 *)
(***************************************************************************)
\* is_tweet_recent(created_at), lines 35-38, called with its default of 5 minutes.
IsTweetRecent(created_at, t) == t - created_at <= RECENT_MINUTES * 60

\* MentionProcessor.get_mentions (src/mention_processor.py:24-56): the
\* mentions no older than the age limit; [] when there is none or when
\* filtered_mentions[0]['id'] raises inside its try.
GetMentions(payload, t) ==
    LET filtered == SelectSeq(payload,
                       LAMBDA m : t - m.created_at <= DEFAULT_MENTION_AGE_LIMIT * 60)
    IN IF filtered # <<>> /\ filtered[1].id = NoId THEN <<>> ELSE filtered

\* lines 134-138: the loop over mentions[:3].
RECURSIVE MentionsLoop(_, _)
MentionsLoop(s, mentions) ==
    IF mentions = <<>> THEN Done(s)
    ELSE LET mention == Head(mentions)
         IN IF mention.id = NoId THEN Raise(s)
            ELSE IF mention.id \notin s.processed_tweets
                    /\ IsTweetRecent(mention.created_at, s.now)
            THEN MentionsLoop(
                    Sleep(MarkSeen(ProcessMention(s, mention, "mentions"),
                                   mention.id, "mentions"), MENTION_PAUSE),
                    Tail(mentions))
            ELSE MentionsLoop(s, Tail(mentions))

MentionsTooSoon(s) == s.now - s.last_processed_time["mentions"] < MENTIONS_GUARD

ProcessMentions(s, feed) ==
    IF MentionsTooSoon(s) THEN Done(s)
    ELSE LET s1 == Fetch(Acquire(s, "mentions"), feed)
             mentions == GetMentions(Stamp(feed, s1.now), s1.now)
             r == MentionsLoop(s1, SubSeq(mentions, 1,
                                 IF Len(mentions) < MAX_MENTIONS THEN Len(mentions)
                                 ELSE MAX_MENTIONS))
         IN IF r.raised \/ r.st.stopped THEN r
            ELSE Done([r.st EXCEPT !.last_processed_time["mentions"] = r.st.now])

(***************************************************************************)
(* process_hashtags (src/main.py:144-193).                                 *)
(***************************************************************************)
LowerChar(ch) ==
    CASE ch = "W" -> "w" [] ch = "M" -> "m" [] ch = "C" -> "c" [] OTHER -> ch

\* str.lower().
Lower(str) == [i \in DOMAIN str |-> LowerChar(str[i])]

\* needle in hay, for strings.
IsSubstring(needle, hay) ==
    \E k \in 0..(Len(hay) - Len(needle)) : SubSeq(hay, k + 1, k + Len(needle)) = needle

\* lines 164-165: the generator's body runs once per monitored account, so
\* None.lower() raises only when there is an account to compare with.
UsernameRaises(s, tweet) ==
    tweet.username = NoneName /\ s.config.ACCOUNTS_TO_MONITOR # <<>>

\* lines 164-165: any(username.lower() in tweet.get('username', '').lower() ...).
FromMonitoredAccount(s, tweet) ==
    \E i \in DOMAIN s.config.ACCOUNTS_TO_MONITOR :
        IsSubstring(Lower(s.config.ACCOUNTS_TO_MONITOR[i]), Lower(tweet.username))

\* A plausible slip: processing whatever has metrics.
LikedEnoughAny(tweet) == tweet.likes # NoMetrics

\* A plausible slip: letting an item through when its metrics fetch failed.
LikedEnoughOrUnknown(tweet) ==
    tweet.likes = NoMetrics \/ tweet.likes >= MIN_LIKES_THRESHOLD

\* lines 169-176: metrics came back and like_count >= MIN_LIKES_THRESHOLD.
LikedEnough(tweet) == tweet.likes # NoMetrics /\ tweet.likes >= MIN_LIKES_THRESHOLD

\* lines 159-189: the loop over one hashtag's search results.
RECURSIVE HashtagTweets(_, _, _)
HashtagTweets(s, tweets, processed_count) ==
    IF tweets = <<>> THEN Done(s)
    ELSE LET tweet == Head(tweets)
             rest == Tail(tweets)
         IN IF tweet.id = NoId THEN Raise(s)
            ELSE IF tweet.id \in s.processed_tweets THEN HashtagTweets(s, rest, processed_count)
            ELSE IF UsernameRaises(s, tweet) THEN Raise(s)
            ELSE IF FromMonitoredAccount(s, tweet) THEN HashtagTweets(s, rest, processed_count)
            ELSE LET s1 == Await(Acquire(s, "user_tweets"))
                     hit == LikedEnough(tweet)
                     s2 == IF hit
                           THEN MarkSeen(ProcessMention(s1, tweet, "hashtags"),
                                         tweet.id, "hashtags")
                           ELSE s1
                     count == IF hit THEN processed_count + 1 ELSE processed_count
                 IN IF count >= MAX_PER_HASHTAG THEN Done(s2)
                    ELSE HashtagTweets(Sleep(s2, HASHTAG_PAUSE), rest, count)

\* lines 150-191: for hashtag in HASHTAGS_TO_MONITOR.
RECURSIVE HashtagsLoop(_, _, _)
HashtagsLoop(s, hashtags, feeds) ==
    IF hashtags = <<>> THEN Done(s)
    ELSE LET s1 == Fetch(Acquire(s, "search"), Head(feeds))
             r == HashtagTweets(s1, Stamp(Head(feeds), s1.now), 0)
         IN IF r.raised THEN r
            ELSE HashtagsLoop(Sleep(r.st, HASHTAG_PAUSE), Tail(hashtags), Tail(feeds))

HashtagsTooSoon(s) == s.now - s.last_processed_time["hashtags"] < HASHTAGS_GUARD

ProcessHashtags(s, feeds) ==
    IF HashtagsTooSoon(s) THEN Done(s)
    ELSE LET r == HashtagsLoop(s, HASHTAGS_TO_MONITOR, feeds)
         IN IF r.raised \/ r.st.stopped THEN r
            ELSE Done([r.st EXCEPT !.last_processed_time["hashtags"] = r.st.now])

(***************************************************************************)
(* cleanup_processed_tweets (src/main.py:195-198).                         *)
(***************************************************************************)
\* A plausible slip: keeping what it should drop.
KeepsInverted(tweet_id, current_time) == current_time - tweet_id >= RETENTION

\* line 198: current_time - float(tweet_id) < 3600.
Keeps(tweet_id, current_time) == current_time - tweet_id < RETENTION

CleanupProcessedTweets(s) ==
    [s EXCEPT !.processed_tweets = {id \in @ : Keeps(id, s.now)}]

(***************************************************************************)
(* The TwitterClient's domain operations (src/twitter_client.py:55-304).   *)
(* A call consumes the bodies _make_request hands back and yields a value  *)
(* or an exception; `failed` says that a request gave no usable result or  *)
(* a step raised, `caught` that the operation's own except clause ran.     *)
(***************************************************************************)
MaxCalls == 3         \* domain operations called in a run of SpecGateway

\* What _make_request returns: None (retries exhausted), a JSON body without
\* 'data', a body whose 'data' lacks what the operation reads from it (the
\* read raises KeyError, TypeError or AttributeError), or a complete body.
Bodies == {"None", "nodata", "malformed", "ok"}

NoUser == "None"

Fresh(user_id) ==
    [value |-> "None", raised |-> FALSE, failed |-> FALSE, caught |-> FALSE,
     sent |-> 0, user_id |-> user_id]

\* One await of _make_request and the statements that read its response:
\* `full` from a complete body, `empty` when there is no body or no 'data',
\* an exception otherwise.  `sent` counts the requests of the call.
Respond(r, body, empty, full) ==
    CASE body = "ok" -> [r EXCEPT !.value = full, !.sent = @ + 1]
      [] body = "malformed" -> [r EXCEPT !.raised = TRUE, !.failed = TRUE, !.sent = @ + 1]
      [] OTHER -> [r EXCEPT !.value = empty, !.failed = TRUE, !.sent = @ + 1]

\* A plausible slip: an operation without its try/except.
TryReraise(r, empty) == r

\* try: ... except Exception as e: logger.error(...); return <empty>.
Try(r, empty) ==
    IF r.raised THEN [r EXCEPT !.value = empty, !.raised = FALSE, !.caught = TRUE] ELSE r

\* get_user_id, lines 55-64: the cached id, or GET /users/me; no try of its own.
GetUserId(r, body) ==
    IF r.user_id # NoUser THEN [r EXCEPT !.value = r.user_id]
    ELSE LET got == Respond(r, body, NoUser, "me")
         IN IF got.raised \/ got.value = NoUser THEN got
            ELSE [got EXCEPT !.user_id = got.value]

\* get_user_id_by_username, lines 66-73.
GetUserIdByUsername(r, body) == Try(Respond(r, body, "None", "uid"), "None")

\* get_mentions, lines 189-230.
ClientGetMentions(r0, b1, b2) ==
    Try(LET u == GetUserId(r0, b1)
        IN IF u.raised THEN u
           ELSE IF u.value = NoUser THEN [u EXCEPT !.value = "[]"]
           ELSE Respond(u, b2, "[]", "mentions"),
        "[]")

\* get_user_tweets, lines 233-266.
ClientGetUserTweets(r0, b1, b2) ==
    Try(LET u == GetUserIdByUsername(r0, b1)
        IN IF u.value = "None" THEN [u EXCEPT !.value = "[]", !.caught = FALSE]
           ELSE Respond(u, b2, "[]", "tweets"),
        "[]")

\* search_tweets, lines 268-304.
SearchTweets(r0, b1) == Try(Respond(r0, b1, "[]", "tweets"), "[]")

\* get_tweet_metrics, lines 87-97.
GetTweetMetrics(r0, b1) == Try(Respond(r0, b1, "None", "metrics"), "None")

\* create_tweet, lines 135-147.
CreateTweet(r0, b1) == Try(Respond(r0, b1, "False", "True"), "False")

\* retweet, lines 149-174.
Retweet(r0, b1, b2) ==
    Try(LET u == GetUserId(r0, b1)
        IN IF u.raised THEN u
           ELSE IF u.value = NoUser THEN [u EXCEPT !.value = "False"]
           ELSE Respond(u, b2, "False", "True"),
        "False")

\* like_tweet, lines 306-320.
LikeTweet(r0, b1, b2) ==
    Try(LET u == GetUserId(r0, b1)
        IN IF u.raised THEN u
           ELSE IF u.value = NoUser THEN [u EXCEPT !.value = "False"]
           ELSE Respond(u, b2, "False", "True"),
        "False")

\* unretweet, lines 176-187.  _make_request sends GET and POST only (lines
\* 28-33): for DELETE it raises ValueError inside its own try on every retry
\* and returns None, whatever the platform would have answered.
Unretweet(r0, b1) ==
    Try(LET u == GetUserId(r0, b1)
        IN IF u.raised THEN u
           ELSE IF u.value = NoUser THEN [u EXCEPT !.value = "False"]
           ELSE Respond(u, "None", "False", "True"),
        "False")

\* unlike_tweet, lines 322-333: a DELETE as well.
UnlikeTweet(r0, b1) ==
    Try(LET u == GetUserId(r0, b1)
        IN IF u.raised THEN u
           ELSE IF u.value = NoUser THEN [u EXCEPT !.value = "False"]
           ELSE Respond(u, "None", "False", "True"),
        "False")

\* _get_latest_mention_id, lines 111-133.
GetLatestMentionId(r0, b1, b2) ==
    Try(LET u == GetUserId(r0, b1)
        IN IF u.raised THEN u
           ELSE IF u.value = NoUser THEN [u EXCEPT !.value = "None"]
           ELSE Respond(u, b2, "None", "latest"),
        "None")

\* The value each operation the scheduler uses returns on failure.
EmptyValue ==
    [get_mentions |-> "[]", get_user_tweets |-> "[]", search_tweets |-> "[]",
     get_tweet_metrics |-> "None", create_tweet |-> "False", retweet |-> "False"]

GwIdle ==
    [user_id |-> NoUser, op |-> "none", value |-> "None", raised |-> FALSE,
     failed |-> FALSE, caught |-> FALSE, sent |-> 0, calls |-> 0]

\* The scheduler awaits one operation; r is what it got.
GatewayCall(op, r) ==
    /\ gw.calls < MaxCalls
    /\ gw' = [user_id |-> r.user_id, op |-> op, value |-> r.value, raised |-> r.raised,
              failed |-> r.failed, caught |-> r.caught, sent |-> r.sent,
              calls |-> gw.calls + 1]
    /\ UNCHANGED <<now, req, reply, ai, pm>> /\ UNCHANGED limiterVars /\ UNCHANGED botVars
    /\ UNCHANGED config

CallGetMentions ==
    \E b1 \in Bodies, b2 \in Bodies :
        GatewayCall("get_mentions", ClientGetMentions(Fresh(gw.user_id), b1, b2))

CallGetUserTweets ==
    \E b1 \in Bodies, b2 \in Bodies :
        GatewayCall("get_user_tweets", ClientGetUserTweets(Fresh(gw.user_id), b1, b2))

CallSearchTweets ==
    \E b1 \in Bodies : GatewayCall("search_tweets", SearchTweets(Fresh(gw.user_id), b1))

CallGetTweetMetrics ==
    \E b1 \in Bodies :
        GatewayCall("get_tweet_metrics", GetTweetMetrics(Fresh(gw.user_id), b1))

CallCreateTweet ==
    \E b1 \in Bodies : GatewayCall("create_tweet", CreateTweet(Fresh(gw.user_id), b1))

CallRetweet ==
    \E b1 \in Bodies, b2 \in Bodies :
        GatewayCall("retweet", Retweet(Fresh(gw.user_id), b1, b2))

\* The client's other operations.  get_user_id is called without a try by
\* MentionProcessor.initialize (src/mention_processor.py:21), which calls
\* _get_latest_mention_id next; an exception of get_user_id reaches its caller.
CallGetUserId ==
    \E b1 \in Bodies : GatewayCall("get_user_id", GetUserId(Fresh(gw.user_id), b1))

CallGetLatestMentionId ==
    \E b1 \in Bodies, b2 \in Bodies :
        GatewayCall("_get_latest_mention_id",
                    GetLatestMentionId(Fresh(gw.user_id), b1, b2))

CallLikeTweet ==
    \E b1 \in Bodies, b2 \in Bodies :
        GatewayCall("like_tweet", LikeTweet(Fresh(gw.user_id), b1, b2))

CallUnlikeTweet ==
    \E b1 \in Bodies : GatewayCall("unlike_tweet", UnlikeTweet(Fresh(gw.user_id), b1))

CallUnretweet ==
    \E b1 \in Bodies : GatewayCall("unretweet", Unretweet(Fresh(gw.user_id), b1))

(***************************************************************************)
(* AIClient.get_response (src/ai_client.py:59-108): what it returns for a  *)
(* cleaned reply.  A text is a sequence of characters.                     *)
(***************************************************************************)
TWEET_MAX_LENGTH == 280
MaxReplyLen == 285    \* cleaned replies of 0..MaxReplyLen characters
MaxPattern == 2       \* texts MakeText(n, 0..MaxPattern) of each length

ReplyChars == <<"a", "b", ".">>

\* A text of n characters; k shifts the pattern.
MakeText(n, k) == [i \in 1..n |-> ReplyChars[((i + k) % Len(ReplyChars)) + 1]]

\* A plausible slip: cutting at the limit and then appending the ellipsis.
TruncateNoRoom(cleaned) ==
    IF Len(cleaned) > TWEET_MAX_LENGTH
    THEN SubSeq(cleaned, 1, TWEET_MAX_LENGTH) \o <<".", ".", ".">>
    ELSE cleaned

\* lines 100-102: cleaned_response[:Config.TWEET_MAX_LENGTH-3] + "..." when
\* len(cleaned_response) > Config.TWEET_MAX_LENGTH.
Truncate(cleaned) ==
    IF Len(cleaned) > TWEET_MAX_LENGTH
    THEN SubSeq(cleaned, 1, TWEET_MAX_LENGTH - 3) \o <<".", ".", ".">>
    ELSE cleaned

ReplyIdle == [at |-> "none", cleaned |-> <<>>, text |-> <<>>]

\* clean_response has produced reply.cleaned; get_response returns.
GetResponseReturns ==
    /\ reply.at = "cleaned"
    /\ reply' = [reply EXCEPT !.at = "returned", !.text = Truncate(reply.cleaned)]
    /\ UNCHANGED <<now, req, gw, ai, pm>> /\ UNCHANGED limiterVars /\ UNCHANGED botVars
    /\ UNCHANGED config

(***************************************************************************)
(* One call of AIClient.get_response (src/ai_client.py:59-108) with its    *)
(* polling loop _wait_for_run (lines 110-132), one action per awaited call *)
(* of the assistant service.                                               *)
(***************************************************************************)
MaxPolls == 4         \* runs.retrieve calls of one get_response

\* AIClient.poll_interval (src/ai_client.py:17), 0.5 s, in milliseconds.
POLL_INTERVAL_MS == 500

\* The statuses _wait_for_run names, and others the service may report.
FailedStatuses == {"failed", "expired", "cancelled"}
OtherStatuses == {"queued", "in_progress", "cancelling", "incomplete"}
RunStatuses == {"completed", "requires_action"} \cup FailedStatuses \cup OtherStatuses

\* What messages.list may answer with (lines 85-104): an exception, no
\* message, a message of another role, an assistant message without text
\* content, an assistant message with text content.
Messages == {"raises", "empty", "user", "assistant_no_text", "assistant_text"}

\* A plausible slip: treating requires_action as a state to wait out.
WaitForRunLenient(status) ==
    IF status = "completed" THEN "run"
    ELSE IF status \in FailedStatuses THEN "None"
    ELSE "poll"

\* _wait_for_run, lines 118-128: what one iteration does with the status it
\* read: return the run, return None, or sleep poll_interval and loop.
WaitForRun(status) ==
    IF status = "completed" THEN "run"
    ELSE IF status \in FailedStatuses THEN "None"
    ELSE IF status = "requires_action" THEN "None"
    ELSE "poll"

\* get_response, line 80: `if not run or run.status != 'completed'`.
RunRejected(run, status) == run = "None" \/ status # "completed"

\* get_response, lines 92-104: the value returned for the listed messages.
ResponseOf(m) == IF m = "assistant_text" THEN "reply" ELSE "None"

\* slept_ms: the time _wait_for_run has spent in asyncio.sleep so far.
AiIdle ==
    [at |-> "none", statuses |-> <<>>, raised |-> "none", result |-> "pending",
     slept_ms |-> 0]

\* return None, after an exception caught at `where` if there was one.
AiNone(where) == [ai EXCEPT !.at = "done", !.raised = where, !.result = "None"]

\* lines 60-69: threads.create returns or raises.
CreateThread(ok) ==
    /\ ai.at = "threads.create"
    /\ ai' = IF ok THEN [ai EXCEPT !.at = "runs.create"] ELSE AiNone("creation")
    /\ UNCHANGED <<now, req, gw, reply, pm>> /\ UNCHANGED limiterVars /\ UNCHANGED botVars
    /\ UNCHANGED config

\* lines 72-78: runs.create returns or raises; then _wait_for_run is entered.
CreateRun(ok) ==
    /\ ai.at = "runs.create"
    /\ ai' = IF ok THEN [ai EXCEPT !.at = "runs.retrieve"] ELSE AiNone("creation")
    /\ UNCHANGED <<now, req, gw, reply, pm>> /\ UNCHANGED limiterVars /\ UNCHANGED botVars
    /\ UNCHANGED config

\* lines 113-116 and 130-132: runs.retrieve raises; _wait_for_run returns
\* None and so does get_response (line 80).
RetrieveRaises ==
    /\ ai.at = "runs.retrieve"
    /\ ai' = AiNone("polling")
    /\ UNCHANGED <<now, req, gw, reply, pm>> /\ UNCHANGED limiterVars /\ UNCHANGED botVars
    /\ UNCHANGED config

\* lines 113-128 and 76-82: runs.retrieve returns a run of this status; a
\* status that is none of those tested leads to the sleep of line 128.
Retrieve(status) ==
    /\ ai.at = "runs.retrieve"
    /\ Len(ai.statuses) < MaxPolls
    /\ LET read == [ai EXCEPT !.statuses = Append(@, status)]
           run == WaitForRun(status)
       IN ai' = IF run = "poll" THEN [read EXCEPT !.at = "sleep"]
                ELSE IF RunRejected(run, status)
                     THEN [read EXCEPT !.at = "done", !.result = "None"]
                     ELSE [read EXCEPT !.at = "messages.list"]
    /\ UNCHANGED <<now, req, gw, reply, pm>> /\ UNCHANGED limiterVars /\ UNCHANGED botVars
    /\ UNCHANGED config

\* line 128: await asyncio.sleep(self.poll_interval), then the next
\* iteration of `while True`.  The clock counts whole seconds.
PollSleep ==
    /\ ai.at = "sleep"
    /\ ai' = [ai EXCEPT !.at = "runs.retrieve", !.slept_ms = @ + POLL_INTERVAL_MS]
    /\ now' = now + (ai'.slept_ms \div 1000) - (ai.slept_ms \div 1000)
    /\ UNCHANGED <<req, gw, reply, pm>> /\ UNCHANGED limiterVars /\ UNCHANGED botVars
    /\ UNCHANGED config

\* lines 85-108: messages.list returns or raises; get_response returns.
ListMessages(m) ==
    /\ ai.at = "messages.list"
    /\ ai' = IF m = "raises" THEN AiNone("retrieval")
             ELSE [ai EXCEPT !.at = "done", !.result = ResponseOf(m)]
    /\ UNCHANGED <<now, req, gw, reply, pm>> /\ UNCHANGED limiterVars /\ UNCHANGED botVars
    /\ UNCHANGED config

(***************************************************************************)
(* MentionProcessor.process_mention called with any mention, against any   *)
(* behaviour of the AI responder and of the gateway.                       *)
(***************************************************************************)
MaxProcessorCalls == 2    \* process_mention calls in SpecProcessor

\* Mentions with and without the keys process_mention subscripts.
Mentions == {[id |-> i, text |-> t] : i \in {NoId, BigId}, t \in {NoText, "text"}}

PmIdle ==
    [calls |-> 0, get_response |-> 0, create_tweet |-> 0, published |-> 0,
     mention |-> [id |-> NoId, text |-> NoText], response |-> "None", created |-> "False",
     caught |-> FALSE, raised |-> FALSE]

\* One `await processor.process_mention(mention)`; response and created are
\* what get_response and create_tweet do if they are called.
ProcessorCall(mention, response, created) ==
    /\ pm.calls < MaxProcessorCalls
    /\ LET r == ProcessMentionCall(mention, response, created)
       IN pm' = [calls |-> pm.calls + 1,
                 get_response |-> pm.get_response + r.get_response,
                 create_tweet |-> pm.create_tweet + r.create_tweet,
                 published |-> pm.published + (IF r.published THEN 1 ELSE 0),
                 mention |-> mention, response |-> response, created |-> created,
                 caught |-> r.caught, raised |-> r.raised]
    /\ UNCHANGED <<now, req, gw, reply, ai>> /\ UNCHANGED limiterVars /\ UNCHANGED botVars
    /\ UNCHANGED config

ClientOff ==
    /\ gw = GwIdle
    /\ reply = ReplyIdle
    /\ ai = AiIdle
    /\ pm = PmIdle

(***************************************************************************)
(* Specifications of the leaf components.                                  *)
(***************************************************************************)
BotOff ==
    /\ pc = "off"
    /\ processed_tweets = {}
    /\ last_processed_time = <<>>
    /\ limiters = <<>>
    /\ log = <<>>
    /\ ran = "none"
    /\ budget = 0
    /\ config = Config

LimiterOff ==
    /\ rl = NewLimiter(1, 1)
    /\ callers = <<>>
    /\ admissions = <<>>
    /\ started = 0

\* A limiter of any small capacity and window with the given callers.
InitLimiter(ids) ==
    /\ now \in 0..1
    /\ \E c \in 1..MaxCapacity, w \in 1..MaxWindow : rl = NewLimiter(c, w)
    /\ callers = [i \in ids |-> [at |-> "idle", wake |-> 0]]
    /\ admissions = <<>>
    /\ started = 0
    /\ req = ReqIdle
    /\ BotOff
    /\ ClientOff

NextLimiter ==
    \/ \E c \in DOMAIN callers : AcquireBegin(c)
    \/ \E c \in DOMAIN callers : AcquireResume(c)
    \/ ClockTick

\* acquire() calls made one after another: a single caller.
SpecLimiter == InitLimiter({1}) /\ [][NextLimiter]_vars

\* One limiter shared by two coroutines whose acquire() calls overlap.
SpecShared == InitLimiter({1, 2}) /\ [][NextLimiter]_vars

\* Sequential callers under the event loop's guarantees: time passes, and a
\* coroutine whose sleep is over is resumed.
SpecLimiterFair ==
    /\ InitLimiter({1})
    /\ [][NextLimiter]_vars
    /\ WF_vars(ClockTick)
    /\ WF_vars(AcquireResume(1))

InitRequest ==
    /\ now = 0
    /\ req = ReqIdle
    /\ LimiterOff
    /\ BotOff
    /\ ClientOff

NextRequest ==
    \/ MakeRequest
    \/ \E resp \in Responses : Attempt(resp)
    \/ \E j \in 0..MaxJitter : SleepReturns(j)

SpecRequest == InitRequest /\ [][NextRequest]_vars

InitGateway ==
    /\ now = 0
    /\ req = ReqIdle
    /\ gw = GwIdle
    /\ reply = ReplyIdle
    /\ ai = AiIdle
    /\ pm = PmIdle
    /\ LimiterOff
    /\ BotOff

NextGateway ==
    \/ CallGetMentions
    \/ CallGetUserTweets
    \/ CallSearchTweets
    \/ CallGetTweetMetrics
    \/ CallCreateTweet
    \/ CallRetweet
    \/ CallGetUserId
    \/ CallGetLatestMentionId
    \/ CallLikeTweet
    \/ CallUnlikeTweet
    \/ CallUnretweet

\* The client's operations, called in any order on one client.
SpecGateway == InitGateway /\ [][NextGateway]_vars

InitReply ==
    /\ now = 0
    /\ req = ReqIdle
    /\ gw = GwIdle
    /\ \E n \in 0..MaxReplyLen, k \in 0..MaxPattern :
          reply = [at |-> "cleaned", cleaned |-> MakeText(n, k), text |-> <<>>]
    /\ ai = AiIdle
    /\ pm = PmIdle
    /\ LimiterOff
    /\ BotOff

\* get_response applied to cleaned replies of every length up to MaxReplyLen.
SpecReply == InitReply /\ [][GetResponseReturns]_vars

InitRun ==
    /\ now = 0
    /\ req = ReqIdle
    /\ gw = GwIdle
    /\ reply = ReplyIdle
    /\ ai = [AiIdle EXCEPT !.at = "threads.create"]
    /\ pm = PmIdle
    /\ LimiterOff
    /\ BotOff

NextRun ==
    \/ \E ok \in BOOLEAN : CreateThread(ok)
    \/ \E ok \in BOOLEAN : CreateRun(ok)
    \/ RetrieveRaises
    \/ \E status \in RunStatuses : Retrieve(status)
    \/ PollSleep
    \/ \E m \in Messages : ListMessages(m)

\* One get_response call against every behaviour of the assistant service.
SpecRun == InitRun /\ [][NextRun]_vars

InitProcessor ==
    /\ now = 0
    /\ req = ReqIdle
    /\ LimiterOff
    /\ BotOff
    /\ ClientOff

NextProcessor ==
    \E mention \in Mentions, response \in AiAnswers, created \in PostAnswers :
        ProcessorCall(mention, response, created)

\* process_mention called MaxProcessorCalls times in a row.
SpecProcessor == InitProcessor /\ [][NextProcessor]_vars

(***************************************************************************)
(* main() (src/main.py:200-234), one action per statement of its loop.     *)
(***************************************************************************)
\* A plausible slip: a gate that always opens.
ShouldProcessAlways(s, task) == TRUE

\* should_process, lines 63-71.
ShouldProcess(s, task) ==
    ~(s.now - s.last_processed_time[task] < check_intervals[task])

Commit(s) ==
    /\ now' = s.now
    /\ processed_tweets' = s.processed_tweets
    /\ last_processed_time' = s.last_processed_time
    /\ limiters' = s.limiters
    /\ log' = s.log

Elapsed(task) == now - last_processed_time[task]

Outcome(task, body, raised) ==
    [task |-> task, elapsed |-> Elapsed(task), body |-> body, raised |-> raised]

\* A plausible slip: a loop without the try/except of lines 206 and 232.
AfterTaskNoCatch(raised, next) == IF raised THEN "crashed" ELSE next

\* lines 206, 232-234: an exception anywhere in the tick ends the tick in the
\* except clause; otherwise control falls through to the next statement.
AfterTask(raised, next) == IF raised THEN "error" ELSE next

\* A plausible slip: stamping the task's run time in a finally clause.
FinishStamps(task, body, r, next) ==
    /\ Commit([r.st EXCEPT !.last_processed_time[task] = r.st.now])
    /\ pc' = AfterTask(r.raised, next)
    /\ ran' = Outcome(task, body, r.raised)

\* `await bot.process_X()` returned or raised; on return main() stores
\* time.time() in last_processed_time[X] itself (lines 211, 217, 223).
Finish(task, body, r, next) ==
    /\ Commit(IF r.raised THEN r.st
              ELSE [r.st EXCEPT !.last_processed_time[task] = r.st.now])
    /\ pc' = AfterTask(r.raised, next)
    /\ ran' = Outcome(task, body, r.raised)

\* should_process returned False.
Skip(task, next) ==
    /\ pc' = next
    /\ ran' = Outcome(task, FALSE, FALSE)
    /\ UNCHANGED <<now, processed_tweets, last_processed_time, limiters, log, budget>>

\* lines 210-211: process_mentions() with the platform answering `feed`.
MentionsRun(feed) ==
    /\ Cost(feed) <= budget
    /\ budget' = budget - Cost(feed)
    /\ Finish("mentions", ~MentionsTooSoon(BotState),
              ProcessMentions(BotState, feed), "accounts")

\* lines 208-211; a tick starts here.
MainMentions(horizon) ==
    /\ pc = "mentions"
    /\ now - StartTime < horizon
    /\ IF ShouldProcess(BotState, "mentions")
       THEN \E feed \in MentionFeeds : MentionsRun(feed)
       ELSE Skip("mentions", "accounts")
    /\ UNCHANGED req /\ UNCHANGED limiterVars /\ UNCHANGED clientVars
    /\ UNCHANGED config

\* lines 214-217.
MainAccounts ==
    /\ pc = "accounts"
    /\ IF ShouldProcess(BotState, "accounts")
       THEN \E f1 \in AccountFeeds, f2 \in AccountFeeds :
              /\ Cost(f1) + Cost(f2) <= budget
              /\ budget' = budget - Cost(f1) - Cost(f2)
              /\ Finish("accounts", ~AccountsTooSoon(BotState),
                        ProcessAccounts(BotState, <<f1, f2>>), "hashtags")
       ELSE Skip("accounts", "hashtags")
    /\ UNCHANGED req /\ UNCHANGED limiterVars /\ UNCHANGED clientVars
    /\ UNCHANGED config

\* lines 220-223.
MainHashtags ==
    /\ pc = "hashtags"
    /\ IF ShouldProcess(BotState, "hashtags")
       THEN \E feed \in HashtagFeeds :
              /\ Cost(feed) <= budget
              /\ budget' = budget - Cost(feed)
              /\ Finish("hashtags", ~HashtagsTooSoon(BotState),
                        ProcessHashtags(BotState, <<feed>>), "cleanup")
       ELSE Skip("hashtags", "cleanup")
    /\ UNCHANGED req /\ UNCHANGED limiterVars /\ UNCHANGED clientVars
    /\ UNCHANGED config

\* line 226.
MainCleanup ==
    /\ pc = "cleanup"
    /\ Commit(CleanupProcessedTweets(BotState))
    /\ pc' = "sleep"
    /\ UNCHANGED <<ran, budget, req>> /\ UNCHANGED limiterVars /\ UNCHANGED clientVars
    /\ UNCHANGED config

\* line 230: await asyncio.sleep(60), then the next iteration.
MainSleep ==
    /\ pc = "sleep"
    /\ now' = now + LOOP_SLEEP
    /\ pc' = "mentions"
    /\ UNCHANGED <<processed_tweets, last_processed_time, limiters, log, ran, budget, req>>
    /\ UNCHANGED limiterVars /\ UNCHANGED clientVars
    /\ UNCHANGED config

\* lines 232-234: log, await asyncio.sleep(Config.ERROR_DELAY), next iteration.
MainErrorSleep ==
    /\ pc = "error"
    /\ now' = now + ERROR_DELAY
    /\ pc' = "mentions"
    /\ UNCHANGED <<processed_tweets, last_processed_time, limiters, log, ran, budget, req>>
    /\ UNCHANGED limiterVars /\ UNCHANGED clientVars
    /\ UNCHANGED config

\* process_X() was stopped at an await: what it did up to there stays done,
\* the answers it fetched are used up, its run time is not stored.
StoppedIn(r) ==
    /\ r.st.stopped
    /\ Commit(r.st)
    /\ budget' = budget - r.st.fetched

\* lines 243-246: KeyboardInterrupt is no Exception; it ends asyncio.run(main()),
\* wherever main() is suspended: between two statements of the loop, or at
\* an await inside process_mentions, process_accounts or process_hashtags.
Interrupt ==
    /\ pc \in {"mentions", "accounts", "hashtags", "cleanup", "sleep", "error"}
    /\ pc' = "stopped"
    /\ \/ UNCHANGED <<now, processed_tweets, last_processed_time, limiters, log, budget>>
       \/ /\ pc = "mentions"
          /\ ShouldProcess(BotState, "mentions")
          /\ \E feed \in MentionFeeds, k \in 0..MaxAwaits :
                /\ Cost(feed) <= budget
                /\ StoppedIn(ProcessMentions(InterruptAt(BotState, k), feed))
       \/ /\ pc = "accounts"
          /\ ShouldProcess(BotState, "accounts")
          /\ \E f1 \in AccountFeeds, f2 \in AccountFeeds, k \in 0..MaxAwaits :
                /\ Cost(f1) + Cost(f2) <= budget
                /\ StoppedIn(ProcessAccounts(InterruptAt(BotState, k), <<f1, f2>>))
       \/ /\ pc = "hashtags"
          /\ ShouldProcess(BotState, "hashtags")
          /\ \E feed \in HashtagFeeds, k \in 0..MaxAwaits :
                /\ Cost(feed) <= budget
                /\ StoppedIn(ProcessHashtags(InterruptAt(BotState, k), <<feed>>))
    /\ UNCHANGED <<ran, req>>
    /\ UNCHANGED limiterVars /\ UNCHANGED clientVars
    /\ UNCHANGED config

\* TwitterBot.__init__ (lines 42-61) at the start of main().
InitBot(position, responses) ==
    /\ now = StartTime
    /\ pc = position
    /\ processed_tweets = {}
    /\ last_processed_time = [t \in Tasks |-> 0]
    /\ limiters = [n \in DOMAIN LimiterConfig |-> <<>>]
    /\ log = <<>>
    /\ ran = [task |-> "none", elapsed |-> 0, body |-> FALSE, raised |-> FALSE]
    /\ budget = responses
    /\ config = Config
    /\ req = ReqIdle
    /\ LimiterOff
    /\ ClientOff

NextMain(horizon) ==
    \/ MainMentions(horizon)
    \/ MainAccounts
    \/ MainHashtags
    \/ MainCleanup
    \/ MainSleep
    \/ MainErrorSleep
    \/ Interrupt

Init == InitBot("mentions", Budget)
Next == NextMain(Horizon)

\* The bot as main() runs it.
Spec == Init /\ [][Next]_vars

\* The same over more than one retention window, with fewer answers.
SpecRetention == InitBot("mentions", LongBudget) /\ [][NextMain(LongHorizon)]_vars

(***************************************************************************)
(* The TwitterBot's methods called directly, in any order, with waits of   *)
(* 300 or 900 seconds between the calls, up to DirectHorizon seconds.      *)
(***************************************************************************)
Called(task, body, r, cost) ==
    /\ pc = "direct"
    /\ cost <= budget
    /\ budget' = IF body THEN budget - cost ELSE budget
    /\ Commit(r.st)
    /\ ran' = Outcome(task, body, r.raised)
    /\ UNCHANGED <<pc, req>> /\ UNCHANGED limiterVars /\ UNCHANGED clientVars
    /\ UNCHANGED config

CallProcessMentions ==
    \E feed \in MentionFeeds :
        Called("mentions", ~MentionsTooSoon(BotState),
               ProcessMentions(BotState, feed), Cost(feed))

CallProcessAccounts ==
    \E f1 \in AccountFeeds, f2 \in AccountFeeds :
        Called("accounts", ~AccountsTooSoon(BotState),
               ProcessAccounts(BotState, <<f1, f2>>), Cost(f1) + Cost(f2))

CallProcessHashtags ==
    \E feed \in HashtagFeeds :
        Called("hashtags", ~HashtagsTooSoon(BotState),
               ProcessHashtags(BotState, <<feed>>), Cost(feed))

CallCleanup ==
    /\ pc = "direct"
    /\ Commit(CleanupProcessedTweets(BotState))
    /\ UNCHANGED <<pc, ran, budget, req>> /\ UNCHANGED limiterVars /\ UNCHANGED clientVars
    /\ UNCHANGED config

Delays == {ERROR_DELAY, ACCOUNTS_GUARD}

Advance(d) ==
    /\ pc = "direct"
    /\ now + d - StartTime <= Horizon
    /\ now' = now + d
    /\ UNCHANGED <<pc, processed_tweets, last_processed_time, limiters, log, ran, budget, req>>
    /\ UNCHANGED limiterVars /\ UNCHANGED clientVars
    /\ UNCHANGED config

NextDirect ==
    \/ CallProcessMentions
    \/ CallProcessAccounts
    \/ CallProcessHashtags
    \/ CallCleanup
    \/ \E d \in Delays : Advance(d) /\ now' - StartTime <= DirectHorizon

SpecDirect == InitBot("direct", DirectBudget) /\ [][NextDirect]_vars

(***************************************************************************)
(* process_accounts with busy accounts and with the account lists set in   *)
(* several ways.  Each account has a timeline of tweets numbered from 1; a *)
(* fetch answers with its first n (max_results is 5).                      *)
(***************************************************************************)
MaxTweets == 5        \* tweets one fetch can answer with
IdStride == 100       \* the ids of one account lie within one stride

alice == <<"a", "l", "i", "c", "e">>
Users == <<wachmc, alice, bob>>

\* Account lists config.py may be given; every one makes two visits a run.
Configs ==
    {Config,
     [ACCOUNTS_TO_MONITOR |-> <<alice>>, ACCOUNTS_TO_RETWEET |-> <<bob>>],
     [ACCOUNTS_TO_MONITOR |-> <<alice, bob>>, ACCOUNTS_TO_RETWEET |-> <<>>],
     [ACCOUNTS_TO_MONITOR |-> <<>>, ACCOUNTS_TO_RETWEET |-> <<alice, bob>>]}

AccountNo(u) == CHOOSE n \in DOMAIN Users : Users[n] = u

TweetId(u, k) == BigId + AccountNo(u) * IdStride + k

\* The account whose timeline holds the id.
Author(id) ==
    CHOOSE u \in {Users[n] : n \in DOMAIN Users} :
        \E k \in 1..MaxTweets + 1 : id = TweetId(u, k)

\* GET /users/:id/tweets for u answering with n tweets, each 100 s old.
Timeline(u, n) == [k \in 1..n |-> Item(TweetId(u, k), 100, u, NoMetrics)]

CallProcessAccountsBusy ==
    \E n1 \in 0..MaxTweets, n2 \in 0..MaxTweets :
        LET usernames == config.ACCOUNTS_TO_MONITOR \o config.ACCOUNTS_TO_RETWEET
        IN Called("accounts", ~AccountsTooSoon(BotState),
                  ProcessAccounts(BotState, <<Timeline(usernames[1], n1),
                                              Timeline(usernames[2], n2)>>), 0)

InitBusy ==
    /\ now = StartTime
    /\ pc = "direct"
    /\ processed_tweets = {}
    /\ last_processed_time = [t \in Tasks |-> 0]
    /\ limiters = [n \in DOMAIN LimiterConfig |-> <<>>]
    /\ log = <<>>
    /\ ran = [task |-> "none", elapsed |-> 0, body |-> FALSE, raised |-> FALSE]
    /\ budget = 0
    /\ config \in Configs
    /\ req = ReqIdle
    /\ LimiterOff
    /\ ClientOff

NextBusy ==
    \/ CallProcessAccountsBusy
    \/ \E d \in Delays : Advance(d)

SpecBusy == InitBusy /\ [][NextBusy]_vars

(***************************************************************************)
(* process_hashtags with longer search results.  The search draws from a   *)
(* few tweets, each with the like_count GET /tweets/:id reports for it.    *)
(***************************************************************************)
MaxResults == 4       \* items one search can answer with
SearchBudget == 6     \* items all searches of a run of SpecSearch answer with

SearchUniverse ==
    <<Item(BigId + 1, 100, bob, 25), Item(BigId + 2, 100, bob, 24),
      Item(BigId + 3, 100, bob, 30), Item(BigId + 4, 100, bob, NoMetrics),
      Item(BigId + 5, 100, bob, 26), Item(BigId + 6, 100, WachMC_fan, 30),
      Item(BigId + 7, 100, bob, 40), Item(BigId + 8, 100, bob, 10)>>

\* The answer holding the tweets numbered in S, in the order of the search.
SearchResult(S) == SelectSeq(SearchUniverse, LAMBDA tw : tw.id - BigId \in S)

CallProcessHashtagsBusy ==
    \E S \in SUBSET DOMAIN SearchUniverse :
        /\ Cardinality(S) <= MaxResults
        /\ Called("hashtags", ~HashtagsTooSoon(BotState),
                  ProcessHashtags(BotState, <<SearchResult(S)>>), Cardinality(S))

NextSearch ==
    \/ CallProcessHashtagsBusy
    \/ \E d \in Delays : Advance(d)

SpecSearch == InitBot("direct", SearchBudget) /\ [][NextSearch]_vars

(***************************************************************************)
(* process_mentions and process_accounts while the AI responder and the    *)
(* platform fail: for each item of an answer, the reply generation, the    *)
(* reply publication or the retweet may fail.                              *)
(***************************************************************************)
OutcomeBudget == 2    \* task bodies run in SpecOutcome

Fates ==
    {Served, [Served EXCEPT !.response = "None"], [Served EXCEPT !.created = "False"],
     [Served EXCEPT !.retweet = "False"]}

\* A tweet of `username` with the services answering `fate` for it.
Fated(id, age, username, fate) ==
    [Item(id, age, username, NoMetrics) EXCEPT !.answers = fate]

\* Answers of GET /users/:id/mentions: up to two mentions, a minute old.
FatedMentions ==
    {<<>>}
    \cup {<<Fated(BigId + 11, 60, bob, f)>> : f \in Fates}
    \cup {<<Fated(BigId + 11, 60, bob, f), Fated(BigId + 12, 60, bob, g)>> :
             f \in Fates, g \in Fates}

\* Answers of GET /users/:id/tweets for wachmc: at most one tweet.
FatedTimelines == {<<>>} \cup {<<Fated(BigId + 21, 100, wachmc, f)>> : f \in Fates}

CallProcessMentionsFated ==
    \E feed \in FatedMentions :
        Called("mentions", ~MentionsTooSoon(BotState), ProcessMentions(BotState, feed), 1)

CallProcessAccountsFated ==
    \E f1 \in FatedTimelines, f2 \in FatedTimelines :
        Called("accounts", ~AccountsTooSoon(BotState),
               ProcessAccounts(BotState, <<f1, f2>>), 1)

NextOutcome ==
    \/ CallProcessMentionsFated
    \/ CallProcessAccountsFated
    \/ \E d \in Delays : Advance(d)

SpecOutcome == InitBot("direct", OutcomeBudget) /\ [][NextOutcome]_vars

(***************************************************************************)
(* Properties of the RateLimiter.                                          *)
(***************************************************************************)
\* Admissions recorded at instants s, s+1, ..., s + window_seconds - 1.
AdmittedInWindow(s) ==
    {i \in DOMAIN admissions :
        s <= admissions[i] /\ admissions[i] < s + rl.window_seconds}

\* C1: when acquire() calls are made one after another, no time window of
\* length window_seconds (an instant exactly window_seconds after another is
\* outside its window, as in acquire's own pruning test) contains more than
\* requests_per_window admissions.
C1_SequentialWindowBound ==
    \A s \in 0..now : Cardinality(AdmittedInWindow(s)) <= rl.requests_per_window

\* C1 witness: the limiter was full, the caller slept, and its admission came
\* exactly one window after the one that blocked it.
C1_Witness ==
    /\ Len(admissions) > rl.requests_per_window
    /\ admissions[Len(admissions)]
         - admissions[Len(admissions) - rl.requests_per_window] = rl.window_seconds
    /\ \A c \in DOMAIN callers : callers[c].at = "idle"

\* C2: a limiter shared by overlapping acquire() calls still admits at most
\* requests_per_window events in any window of window_seconds.
C2_SharedWindowBound ==
    \A s \in 0..now : Cardinality(AdmittedInWindow(s)) <= rl.requests_per_window

(***************************************************************************)
(* Properties of _make_request.                                            *)
(***************************************************************************)
\* C3: a request whose every attempt fails with a generic error is attempted
\* exactly MAX_RETRIES + 1 = 4 times and then returns None.
C3_FourAttemptsThenNone ==
    (req.limited = 0 /\ req.generic = req.attempts) =>
        /\ req.attempts <= MAX_RETRIES + 1
        /\ (req.at = "done" => req.attempts = MAX_RETRIES + 1 /\ req.result = "None")
        /\ (req.attempts = MAX_RETRIES + 1 => req.at = "done")

\* C3 witness: four generic failures in a row and the call has returned None.
C3_Witness ==
    /\ req.at = "done" /\ req.result = "None"
    /\ req.limited = 0 /\ req.generic = 4 /\ req.attempts = 4

\* C4: after a 429 the call does not return; the next attempt is issued no
\* earlier than max(reset_time - now, 60) seconds after the 429, so a reset
\* time 30 seconds ahead still costs at least 60 seconds.
C4_RateLimitWait ==
    req.prev.status = "429" =>
        /\ req.at \in {"sleeping", "attempt"}
        /\ req.at = "sleeping" =>
             req.wake - req.prev.at
                = Max(req.prev.reset_time - req.prev.at, RATE_LIMIT_FLOOR)
        /\ req.at = "attempt" =>
             /\ now - req.prev.at
                  >= Max(req.prev.reset_time - req.prev.at, RATE_LIMIT_FLOOR)
             /\ (req.prev.reset_time - req.prev.at = 30 => now - req.prev.at >= 60)

\* C4 witness: a 429 with a reset time 30 seconds ahead was answered, the wait
\* is over and the one extra attempt is about to be issued.
C4_Witness ==
    /\ req.prev.status = "429"
    /\ req.prev.reset_time - req.prev.at = 30
    /\ req.at = "attempt"
    /\ now - req.prev.at >= 60

\* C5: within one _make_request call the number of attempts that end in a
\* generic failure never exceeds MAX_RETRIES + 1, whatever the responses.
C5_GenericFailuresBounded == req.generic <= MAX_RETRIES + 1

(***************************************************************************)
(* Properties of the scheduler.                                            *)
(***************************************************************************)
\* C6: a call of process_accounts made less than 900 seconds after the
\* completion of its previous run is a no-op: no limiter acquire, no fetch,
\* no processing, and last_processed_time and the dedup set stay as they are.
C6_SecondCallNoOp ==
    [][(CallProcessAccounts /\ Elapsed("accounts") < 900) =>
          (/\ UNCHANGED <<now, processed_tweets, last_processed_time, limiters, log>>
           /\ ~ran'.body)]_vars

\* C6 witness: a first run processed an item, and a second call within 900
\* seconds of its completion has just returned without running the body.
C6_Witness ==
    /\ ran.task = "accounts" /\ ~ran.body /\ ran.elapsed < 900
    /\ last_processed_time["accounts"] >= StartTime
    /\ \E i \in DOMAIN log : log[i].task = "accounts" /\ log[i].ev = "process"

\* The minimum intervals as the specification states them.
StatedInterval == [mentions |-> 180, accounts |-> 900, hashtags |-> 900]

\* C7: at every tick the body of task t runs if and only if
\* now - last_run_at[t] >= min_interval[t], with 180 s for mentions, 900 s
\* for accounts and 900 s for hashtags.
C7_GateIntervals ==
    ran.task # "none" => (ran.body <=> ran.elapsed >= StatedInterval[ran.task])

\* C8: an id added to the dedup set is not processed again (no Processor
\* call, no retweet) during the 3600 seconds that follow.
C8_NoReprocessInWindow ==
    \A i \in DOMAIN log : \A j \in DOMAIN log :
        (/\ i < j
         /\ log[i].ev = "add"
         /\ log[j].ev \in {"process", "retweet"}
         /\ log[j].id = log[i].id)
        => log[j].at - log[i].at >= 3600

\* When id was last added to the dedup set.
LastAdded(id) ==
    LET adds == {i \in DOMAIN log : log[i].ev = "add" /\ log[i].id = id}
    IN log[CHOOSE i \in adds : \A k \in adds : k <= i].at

\* C9: once the end-of-tick eviction has run, no id that was added more than
\* 3600 seconds ago is left in the dedup set.
C9_EvictedAfterRetention ==
    pc = "sleep" => \A id \in processed_tweets : now - LastAdded(id) <= 3600

MainPositions == {"mentions", "accounts", "hashtags", "cleanup", "sleep", "error"}

\* C10: a task error never ends the loop.  A step of a tick in which an
\* exception escapes leads to the except clause; from there the only step
\* of the loop sleeps 300 s and begins a new tick; and the loop is left only
\* by the operator's interrupt, a step in which no task returns or raises:
\* no outcome and no run time are recorded, even when the interrupt lands
\* inside a task.
C10_LoopSurvivesErrors ==
    [][/\ pc' \in MainPositions \cup {"stopped"}
       /\ (pc \in Tasks /\ pc' \notin {pc, "stopped"} /\ ran'.raised) => pc' = "error"
       /\ (pc = "error" /\ pc' # "stopped") => (pc' = "mentions" /\ now' = now + 300)
       /\ pc' = "stopped" => UNCHANGED <<last_processed_time, ran>>
      ]_vars

\* C10 witness: an exception escaped the hashtags task, the loop slept the
\* error delay and stands at the start of a new tick.
C10_Witness ==
    /\ pc = "mentions"
    /\ ran.raised /\ ran.task = "hashtags"
    /\ now >= StartTime + 300

\* C10, a further case reached: the interrupt landed in the 5 s sleep that
\* follows the first reply of a mentions run.  The reply and the add are
\* done, the clock has not moved, no run time and no outcome are recorded.
C10_WitnessInterrupted ==
    /\ pc = "stopped"
    /\ Len(log) = 3
    /\ log[2].ev = "process" /\ log[3].ev = "add" /\ log[3].task = "mentions"
    /\ log[3].id \in processed_tweets
    /\ now = StartTime
    /\ last_processed_time["mentions"] = 0
    /\ ran.task = "none"

(***************************************************************************)
(* Properties of the task bodies.                                          *)
(***************************************************************************)
\* The log entries a step appended.
NewEntries == {i \in DOMAIN log' : i > Len(log)}

\* Item i of the answer `feed`, fetched now, is one the mentions task is
\* expected to handle: among the first 3, not yet seen, no older than the
\* age limit of 180 minutes.
EligibleMention(feed, i) ==
    LET t == Acquire(BotState, "mentions").now
        m == Stamp(feed, t)[i]
    IN /\ i <= 3
       /\ m.id # NoId
       /\ m.id \notin processed_tweets
       /\ t - m.created_at <= DEFAULT_MENTION_AGE_LIMIT * 60

\* C11: in a mentions run every fetched mention that is among the first 3,
\* unseen and no older than the age limit (180 minutes) is passed to the
\* Processor and then marked seen.
C11_EligibleMentionsProcessed ==
    [][\A feed \in MentionFeeds :
         (pc = "mentions" /\ ShouldProcess(BotState, "mentions") /\ MentionsRun(feed)) =>
            \A i \in DOMAIN feed :
                EligibleMention(feed, i) =>
                    \E j \in NewEntries, k \in NewEntries :
                        /\ j < k
                        /\ log'[j].ev = "process" /\ log'[j].id = feed[i].id
                        /\ log'[k].ev = "add" /\ log'[k].id = feed[i].id
      ]_vars

(***************************************************************************)
(* Properties of the gateway operations and of the AI client.              *)
(***************************************************************************)
\* C12: each of get_mentions, get_user_tweets, search_tweets,
\* get_tweet_metrics, create_tweet and retweet reports failure as a value: no
\* call ends by raising, and a call in which a request gave no usable result
\* or a step raised returns the operation's empty value ([], None or False),
\* whichever operations of the client were called before it.
C12_FailureIsAValue ==
    gw.op \in DOMAIN EmptyValue =>
        /\ ~gw.raised
        /\ (gw.failed \/ gw.caught) => gw.value = EmptyValue[gw.op]

\* C12 witness: a step of retweet raised (GET /users/me answered a body
\* without the id), the except clause ran and the call returned False.
C12_Witness ==
    /\ gw.op = "retweet" /\ gw.caught /\ gw.failed
    /\ ~gw.raised /\ gw.value = "False"

\* C13: a cleaned reply longer than 280 characters is returned as its first
\* 277 characters followed by "...", 280 characters in all; one of 280
\* characters or fewer is returned unchanged.
C13_TruncatedTo280 ==
    reply.at = "returned" =>
        IF Len(reply.cleaned) > 280
        THEN /\ Len(reply.text) = 280
             /\ SubSeq(reply.text, 278, 280) = <<".", ".", ".">>
             /\ SubSeq(reply.text, 1, 277) = SubSeq(reply.cleaned, 1, 277)
        ELSE reply.text = reply.cleaned

\* C13 witness: a cleaned reply of 281 characters came back 280 long.
C13_Witness ==
    /\ reply.at = "returned"
    /\ Len(reply.cleaned) = 281
    /\ Len(reply.text) = 280

(***************************************************************************)
(* The limiter's log and the progress of acquire().                        *)
(***************************************************************************)
\* C14: at every observation point (no acquire() in progress) every retained
\* timestamp lies within [now - window_seconds, now] and at most
\* requests_per_window timestamps are retained.
C14_LogWithinWindow ==
    (\A c \in DOMAIN callers : callers[c].at = "idle") =>
        /\ \A i \in DOMAIN rl.requests :
              now - rl.window_seconds <= rl.requests[i] /\ rl.requests[i] <= now
        /\ Len(rl.requests) <= rl.requests_per_window

\* C15: every acquire() call admits.  A call that suspends does so for at
\* most window_seconds and is eventually resumed; a call returns in the step
\* in which it records exactly one new timestamp, the current time; and a
\* call is never in any state but suspended or returned (no error outcome).
C15_AcquireAdmits ==
    /\ (callers[1].at = "sleeping") ~> (callers[1].at = "idle")
    /\ [][/\ callers'[1].at \in {"idle", "sleeping"}
          /\ (callers[1].at = "idle" /\ callers'[1].at = "sleeping") =>
                /\ callers'[1].wake > now
                /\ callers'[1].wake - now <= rl.window_seconds
                /\ admissions' = admissions
          /\ (callers'[1].at = "idle"
                /\ (callers[1].at = "sleeping" \/ started' = started + 1)) =>
                /\ admissions' = Append(admissions, now)
                /\ \E k \in 0..Len(rl.requests) :
                      rl'.requests
                        = Append(SubSeq(rl.requests, k + 1, Len(rl.requests)), now)
          /\ (callers'[1] = callers[1] /\ started' = started) => admissions' = admissions
         ]_vars

\* C15 witness: every call begun has admitted, the last of them after
\* sleeping on a full log.
C15_Witness ==
    /\ callers[1].at = "idle"
    /\ started >= 2 /\ Len(admissions) = started
    /\ Len(rl.requests) > rl.requests_per_window

(***************************************************************************)
(* The task cycle of main().                                               *)
(***************************************************************************)
\* The statement main() reaches when a task returns.
AfterReturn == [mentions |-> "accounts", accounts |-> "hashtags", hashtags |-> "cleanup"]

\* C16: a task run that passed its gate and whose body returned (having
\* succeeded or having handled its failures itself) leaves the task idle
\* with last_run_at[task] equal to the time at which the body finished, and
\* nothing else moves last_run_at[task]; so a run of the task starts only
\* when at least min_interval (180, 900, 900 s) has passed since its
\* previous run finished.
C16_RunRecordsFinishTime ==
    [][/\ (pc \in Tasks /\ pc' \notin {pc, "stopped"}) =>
            /\ ShouldProcess(BotState, pc) =>
                  /\ Elapsed(pc) >= StatedInterval[pc]
                  /\ ~ran'.raised =>
                        /\ pc' = AfterReturn[pc]
                        /\ last_processed_time'[pc] = now'
                        /\ now' >= now
            /\ ~ShouldProcess(BotState, pc) => last_processed_time' = last_processed_time
            /\ \A u \in Tasks \ {pc} : last_processed_time'[u] = last_processed_time[u]
       /\ (pc \notin Tasks \/ pc' \in {pc, "stopped"}) =>
            last_processed_time' = last_processed_time
      ]_vars

\* C16 witness: an accounts run caught a failure inside its body, returned,
\* and main() stands at the next statement with last_run_at['accounts'] = now.
C16_Witness ==
    /\ pc = "hashtags"
    /\ ran.task = "accounts" /\ ran.body /\ ~ran.raised
    /\ last_processed_time["accounts"] = now
    /\ \E i \in DOMAIN log : log[i].ev = "caught" /\ log[i].task = "accounts"

\* The positions main() can move to from each position.
AllowedNext ==
    [mentions |-> {"accounts", "error"}, accounts |-> {"hashtags", "error"},
     hashtags |-> {"cleanup", "error"}, cleanup |-> {"sleep"}, sleep |-> {"mentions"},
     error |-> {"mentions"}]

\* The limiters each task acquires.
LimitersOf ==
    [mentions |-> {"mentions"}, accounts |-> {"user_tweets", "retweet"},
     hashtags |-> {"search", "user_tweets"}]

\* The pause that follows each item a task handles.
PauseAfterItem ==
    [mentions |-> MENTION_PAUSE, accounts |-> TWEET_PAUSE, hashtags |-> HASHTAG_PAUSE]

\* C17: one task at a time, in the order mentions, accounts, hashtags.  The
\* loop moves only along that order; whatever a step does to the dedup set,
\* the limiters or the log belongs to the one task main() stands at; and
\* the step that leaves a task has taken all of the task's waits, so the
\* next gate is checked only after them.
C17_OneTaskInOrder ==
    [][/\ pc' # pc => pc' \in AllowedNext[pc] \cup {"stopped"}
       /\ \A i \in NewEntries :
            /\ pc \in Tasks
            /\ IF log'[i].ev = "acquire" THEN log'[i].task \in LimitersOf[pc]
               ELSE log'[i].task = pc
       /\ limiters' # limiters => pc \in Tasks
       /\ \A t \in Tasks :
            (ran' # ran \/ last_processed_time'[t] # last_processed_time[t]) =>
                (ran'.task = t <=> pc = t)
       /\ (pc \in Tasks /\ pc' \in AllowedNext[pc] /\ ~ran'.raised) =>
            now' - now >=
                PauseAfterItem[pc]
                  * Cardinality({i \in NewEntries : log'[i].ev = "add"})
      ]_vars

\* C17 witness: the mentions task handled a mention and took its 5-second
\* pause, and main() now stands at the accounts gate.
C17_Witness ==
    /\ pc = "accounts"
    /\ ran.task = "mentions" /\ ran.body /\ ~ran.raised
    /\ log # <<>>
    /\ log[Len(log)].ev = "add" /\ log[Len(log)].task = "mentions"
    /\ now = log[Len(log)].at + MENTION_PAUSE

(***************************************************************************)
(* Properties of the accounts and hashtags tasks.                          *)
(***************************************************************************)
\* The user-tweets limiter admissions recorded by the step being taken: one
\* for every account the accounts task visits.
VisitsInStep ==
    {i \in DOMAIN limiters'["user_tweets"] : limiters'["user_tweets"][i] >= now}

\* C18: an accounts run is not aborted by the failure of one account: the
\* run does not raise, every configured account is visited (one user-tweets
\* admission each), a caught failure is followed by the 30-second pause, and
\* last_run_at['accounts'] is recorded at the end of the run.
C18_AccountFailureContained ==
    [][(pc = "accounts" /\ pc' \notin {pc, "stopped"} /\ ShouldProcess(BotState, "accounts")) =>
          /\ ~ran'.raised
          /\ pc' = "hashtags"
          /\ Cardinality(VisitsInStep)
                = Len(config.ACCOUNTS_TO_MONITOR \o config.ACCOUNTS_TO_RETWEET)
          /\ \A i \in NewEntries :
                log'[i].ev = "caught" => now' >= log'[i].at + ACCOUNT_PAUSE
          /\ last_processed_time'["accounts"] = now'
      ]_vars

\* C18 witness: the first account's processing failed and was caught, the
\* second account was fetched after it, and the run recorded its end time.
C18_Witness ==
    /\ pc = "hashtags"
    /\ ran.task = "accounts" /\ ran.body /\ ~ran.raised
    /\ last_processed_time["accounts"] = now
    /\ \E i \in DOMAIN log :
          /\ log[i].ev = "caught"
          /\ \E k \in DOMAIN limiters["user_tweets"] :
                limiters["user_tweets"][k] = log[i].at + ACCOUNT_PAUSE
          /\ \E j \in DOMAIN log : j > i /\ log[j].task = "accounts"

\* The retweet calls in a log.
Retweets(lg) == {i \in DOMAIN lg : lg[i].ev = "retweet"}

\* The last admission of the retweet limiter after the step.
LastRetweetAdmission == limiters'["retweet"][Len(limiters'["retweet"])]

\* C19: every retweet call of the accounts task comes right after its own
\* admission by the retweet limiter (its instant is in the limiter's log, or
\* was and has expired since), no 900-second window holds more than 3
\* retweet calls, an item is retweeted only for an account of the retweet
\* list and passed to the Processor only for an account of the monitor list.
C19_RetweetsLimited ==
    [][/\ \A i \in NewEntries :
            log'[i].ev = "retweet" =>
                /\ limiters'["retweet"] # <<>>
                /\ \/ \E k \in DOMAIN limiters'["retweet"] :
                          limiters'["retweet"][k] = log'[i].at
                   \/ log'[i].at <= LastRetweetAdmission - 900
                /\ Contains(config.ACCOUNTS_TO_RETWEET, Author(log'[i].id))
       /\ \A i \in NewEntries :
            log'[i].ev = "process" =>
                Contains(config.ACCOUNTS_TO_MONITOR, Author(log'[i].id))
       /\ \A i \in Retweets(log') :
            Cardinality({j \in Retweets(log') :
                            /\ log'[i].at <= log'[j].at
                            /\ log'[j].at < log'[i].at + 900}) <= 3
      ]_vars

\* C19 witness: with different monitor and retweet lists, a run processed
\* an item of the monitored account and retweeted four of the other, the
\* fourth exactly 900 s after the first.
C19_Witness ==
    /\ config.ACCOUNTS_TO_MONITOR = <<alice>> /\ config.ACCOUNTS_TO_RETWEET = <<bob>>
    /\ \E i \in DOMAIN log : log[i].ev = "process" /\ Author(log[i].id) = alice
    /\ \E i \in Retweets(log), j \in Retweets(log) :
          /\ log[j].at = log[i].at + 900
          /\ Cardinality({k \in Retweets(log) : i <= k /\ k <= j}) = 4

\* The tweet of the search with this id.
Searched(id) == SearchUniverse[CHOOSE n \in DOMAIN SearchUniverse : SearchUniverse[n].id = id]

\* The Processor calls of the step being taken.
ProcessedInStep == {i \in NewEntries : log'[i].ev = "process"}

\* C20: in a hashtags run an item is passed to the Processor only if its
\* like count was fetched and is at least 25, its id was not in the dedup
\* set and its author's name contains no monitored account's name; and the
\* run passes at most 3 items per hashtag.
C20_HashtagFilter ==
    [][/\ \A i \in ProcessedInStep :
            /\ Searched(log'[i].id).likes # NoMetrics
            /\ Searched(log'[i].id).likes >= 25
            /\ log'[i].id \notin processed_tweets
            /\ \A k \in DOMAIN config.ACCOUNTS_TO_MONITOR :
                  ~IsSubstring(Lower(config.ACCOUNTS_TO_MONITOR[k]),
                               Lower(Searched(log'[i].id).username))
       /\ Cardinality(ProcessedInStep) <= 3 * Len(HASHTAGS_TO_MONITOR)
      ]_vars

\* C20 witness: a search answered with four items; the run passed three of
\* them to the Processor, 10 s apart, and ended 10 s after the third without
\* looking at the fourth.
C20_Witness ==
    /\ ran.task = "hashtags" /\ ran.body /\ ~ran.raised
    /\ budget = SearchBudget - 4
    /\ Len(log) = 10
    /\ log[3].ev = "process" /\ log[6].ev = "process" /\ log[9].ev = "process"
    /\ log[6].at = log[3].at + HASHTAG_PAUSE /\ log[9].at = log[6].at + HASHTAG_PAUSE
    /\ now = log[9].at + HASHTAG_PAUSE

LastStatus == ai.statuses[Len(ai.statuses)]

\* C21: get_response returns a reply string only when the run was read as
\* completed and nothing raised; it returns None once the run is read as
\* failed, expired, cancelled or requires_action, and after any exception in
\* creation, polling or retrieval; and while the run is read in a
\* non-terminal state it stays in the polling loop (asleep for the poll
\* interval, or about to retrieve again) without a result.
C21_ReplyOnlyWhenCompleted ==
    /\ ai.result = "reply" =>
          /\ ai.statuses # <<>>
          /\ LastStatus = "completed"
          /\ ai.raised = "none"
    /\ (ai.statuses # <<>> /\ LastStatus \in FailedStatuses \cup {"requires_action"}) =>
          /\ ai.at = "done"
          /\ ai.result = "None"
    /\ ai.raised # "none" => ai.at = "done" /\ ai.result = "None"
    /\ (/\ ai.statuses # <<>>
        /\ LastStatus \in {"queued", "in_progress", "cancelling"}
        /\ ai.raised = "none") =>
          /\ ai.at \in {"sleep", "runs.retrieve"}
          /\ ai.result = "pending"
    /\ \A i \in 1..(Len(ai.statuses) - 1) : ai.statuses[i] \in OtherStatuses

\* C21 witness: a reply came back after the run was read queued, in_progress
\* and then completed, with two poll intervals slept in between.
C21_Witness ==
    /\ ai.at = "done"
    /\ ai.result = "reply"
    /\ ai.statuses = <<"queued", "in_progress", "completed">>
    /\ ai.slept_ms = 2 * POLL_INTERVAL_MS
    /\ now = 1

\* C21, further cases reached: None after requires_action, and None after an
\* exception while polling a run that had been read in_progress.
C21_WitnessNone ==
    /\ ai.at = "done"
    /\ ai.result = "None"
    /\ \/ ai.statuses = <<"queued", "requires_action">>
       \/ ai.statuses = <<"in_progress">> /\ ai.raised = "polling"

Attempts(lg) == {i \in DOMAIN lg : lg[i].ev \in {"process", "retweet"}}

\* C22: in the mentions and accounts tasks every attempt on an item (a
\* Processor call or a retweet), failed or not, is followed in the same run
\* by the addition of the item's id to processed_tweets; and no attempt is
\* made on an item whose id is already in processed_tweets, whether it got
\* there in an earlier run or earlier in this one.
C22_SeenWhateverTheOutcome ==
    [][\A i \in NewEntries :
          (i \in Attempts(log') /\ log'[i].task \in {"mentions", "accounts"}) =>
              /\ log'[i].id \in processed_tweets'
              /\ \E j \in NewEntries :
                    j > i /\ log'[j].ev = "add" /\ log'[j].id = log'[i].id
              /\ log'[i].id \notin processed_tweets
              /\ \A j \in NewEntries :
                    (j < i /\ log'[j].ev = "add") => log'[j].id # log'[i].id]_vars

\* C22 witness: a mention whose reply failed was marked seen, and a mentions
\* run that finished at least 180 s later left it at that one attempt.
C22_Witness ==
    \E i \in Attempts(log) :
        /\ log[i].ev = "process" /\ log[i].task = "mentions" /\ ~log[i].ok
        /\ log[i].id \in processed_tweets
        /\ last_processed_time["mentions"] >= log[i].at + MENTIONS_GUARD
        /\ Cardinality({j \in Attempts(log) : log[j].id = log[i].id}) = 1

\* C22, a further case reached: a tweet whose retweet failed on the first
\* visit of wachmc was marked seen, and the run finished.
C22_WitnessRetweet ==
    \E i \in Attempts(log) :
        /\ log[i].ev = "retweet" /\ ~log[i].ok
        /\ log[i].id \in processed_tweets
        /\ last_processed_time["accounts"] > log[i].at

\* C27: one process_mention call calls create_tweet at most once (so it
\* publishes at most one reply), calls it only after get_response was called
\* and returned a non-empty reply, and returns to its caller without raising
\* whatever get_response and create_tweet did.
C27_AtMostOneReply ==
    [][pm'.calls = pm.calls + 1 =>
          /\ pm'.create_tweet - pm.create_tweet \in {0, 1}
          /\ pm'.published - pm.published \in {0, 1}
          /\ pm'.published - pm.published <= pm'.create_tweet - pm.create_tweet
          /\ pm'.create_tweet > pm.create_tweet =>
                /\ pm'.get_response = pm.get_response + 1
                /\ pm'.response \notin {"raises", "None", ""}
          /\ ~pm'.raised]_vars

\* C27 witness: after a call that published a reply, a second call found
\* create_tweet raising; the exception was caught and nothing was published.
C27_Witness ==
    /\ pm.calls = 2
    /\ pm.create_tweet = 2
    /\ pm.published = 1
    /\ pm.created = "raises"
    /\ pm.caught /\ ~pm.raised

\* C27, a further case reached: get_response returned "" and create_tweet was
\* not called.
C27_WitnessEmpty ==
    /\ pm.calls = 1
    /\ pm.response = ""
    /\ pm.get_response = 1
    /\ pm.create_tweet = 0

\* The entries of a log for admissions by the named limiter.
Admissions(lg, name) == {i \in DOMAIN lg : lg[i].ev = "acquire" /\ lg[i].task = name}

\* The usernames an accounts run visits, in order (src/main.py:79).
Visited == config.ACCOUNTS_TO_MONITOR \o config.ACCOUNTS_TO_RETWEET

\* C23: an accounts run visits every entry of the monitor list followed by
\* the retweet list, acquiring the user-tweets limiter once per visit, so a
\* username in both lists is visited twice; yet in one run each tweet is
\* passed to the Processor at most once and retweeted at most once, and
\* never after its id was added to processed_tweets.
C23_TwoVisitsOneAttempt ==
    [][(ran' # ran /\ ran'.task = "accounts" /\ ran'.body) =>
          /\ Cardinality(Admissions(log', "user_tweets") \cap NewEntries) = Len(Visited)
          /\ \A u \in {Users[n] : n \in DOMAIN Users} :
                (Contains(config.ACCOUNTS_TO_MONITOR, u)
                    /\ Contains(config.ACCOUNTS_TO_RETWEET, u)) =>
                    Cardinality({k \in DOMAIN Visited : Visited[k] = u}) = 2
          /\ \A i \in NewEntries : \A j \in NewEntries :
                (/\ log'[i].ev \in {"process", "retweet"}
                 /\ log'[j].ev = log'[i].ev
                 /\ log'[j].id = log'[i].id) => i = j
          /\ \A i \in NewEntries :
                log'[i].ev \in {"process", "retweet"} =>
                    /\ log'[i].id \notin processed_tweets
                    /\ \A j \in NewEntries :
                          (j < i /\ log'[j].ev = "add") => log'[j].id # log'[i].id
      ]_vars

\* C23 witness: with wachmc in both lists, the first visit processed and
\* retweeted its one tweet; the second visit, whose answer held that tweet
\* and a newer one, handled only the newer one.
C23_Witness ==
    /\ config = Config
    /\ ran.task = "accounts" /\ ran.body
    /\ Cardinality(Admissions(log, "user_tweets")) = 2
    /\ Len(log) = 10
    /\ log[1].ev = "acquire" /\ log[1].task = "user_tweets"
    /\ log[2].ev = "process" /\ log[2].id = TweetId(wachmc, 1)
    /\ log[4].ev = "retweet" /\ log[4].id = TweetId(wachmc, 1)
    /\ log[5].ev = "add" /\ log[5].id = TweetId(wachmc, 1)
    /\ log[6].ev = "acquire" /\ log[6].task = "user_tweets"
    /\ log[7].ev = "process" /\ log[7].id = TweetId(wachmc, 2)
    /\ log[9].ev = "retweet" /\ log[9].id = TweetId(wachmc, 2)
    /\ log[10].ev = "add" /\ log[10].id = TweetId(wachmc, 2)

\* C24: when an exception escapes a task body, main() goes to its except
\* clause with last_run_at of every task as it was before the task, the
\* failing task's included; from there it only sleeps 300 s and starts the
\* next tick at the mentions gate, so the later tasks and the eviction of
\* that tick do not run; and at the start of that next tick the failing
\* task's gate holds again.
C24_FailedTickIsAbandoned ==
    [][/\ (pc \in Tasks /\ pc' \notin {pc, "stopped"} /\ ran'.raised) =>
            /\ pc' = "error"
            /\ ran'.task = pc
            /\ ShouldProcess(BotState, pc)
            /\ last_processed_time' = last_processed_time
       /\ (pc = "error" /\ pc' # "stopped") =>
            /\ ran.raised
            /\ pc' = "mentions"
            /\ now' = now + ERROR_DELAY
            /\ UNCHANGED <<processed_tweets, last_processed_time, limiters, log, ran>>
            /\ now' - last_processed_time'[ran.task] >= check_intervals[ran.task]
       /\ pc' = "cleanup" => ~ran'.raised
      ]_vars

\* C24 witness: the mentions task handled one mention and raised on the
\* next; a new tick has begun with last_run_at['mentions'] still at its
\* initial value and the mentions gate open.
C24_Witness ==
    /\ pc = "mentions"
    /\ ran.raised /\ ran.task = "mentions"
    /\ \E i \in DOMAIN log : log[i].ev = "process" /\ log[i].task = "mentions"
    /\ last_processed_time["mentions"] = 0
    /\ ShouldProcess(BotState, "mentions")
    /\ now >= StartTime + ERROR_DELAY

\* C25: in the main loop every acquire() of the mentions limiter is admitted
\* at once, at the instant the mentions run began: the limiter's log, pruned
\* at that instant, holds fewer than 5 timestamps, and every earlier
\* admission by that limiter is at least 180 s old.
C25_MentionsNeverSuspends ==
    [][\A i \in NewEntries \cap Admissions(log', "mentions") :
          /\ pc = "mentions"
          /\ log'[i].ok
          /\ log'[i].at = now
          /\ Len(Prune(limiters["mentions"], LimiterConfig["mentions"].w, now))
                < LimiterConfig["mentions"].c
          /\ \A j \in Admissions(log, "mentions") : log'[i].at - log[j].at >= 180
      ]_vars

\* C25 witness: six mentions runs 180 s apart; the sixth was admitted at once
\* exactly 900 s after the first, whose timestamp had just expired.
C25_Witness ==
    \E i \in Admissions(log, "mentions") : \E j \in Admissions(log, "mentions") :
        /\ log[j].at = log[i].at + 900
        /\ log[j].ok
        /\ Cardinality({k \in Admissions(log, "mentions") :
                            log[i].at <= log[k].at /\ log[k].at <= log[j].at}) = 6
        /\ Len(limiters["mentions"]) = 5

\* Below the threshold, or without metrics (src/main.py:169-172).
LowLikes(tw) == tw.likes = NoMetrics \/ tw.likes < 25

\* The answers a search can give, by the number of their items.
AnswersOfSize ==
    [n \in 0..MaxResults |->
        {S \in SUBSET DOMAIN SearchUniverse : Cardinality(S) = n}]

\* The answers the step being taken can have consumed.
AnswersInStep ==
    IF budget - budget' \in 0..MaxResults THEN AnswersOfSize[budget - budget'] ELSE {}

\* The step is a hashtags run whose search answered with the tweets in S
\* (the second conjunct follows from the third and is cheaper to evaluate).
HashtagsRun(S) ==
    /\ ~HashtagsTooSoon(BotState)
    /\ \A id \in processed_tweets' \ processed_tweets : id - BigId \in S
    /\ Called("hashtags", TRUE, ProcessHashtags(BotState, <<SearchResult(S)>>),
              Cardinality(S))

\* The items of the answer that pass the two skips (lines 160-166), in order.
Candidates(S) ==
    SelectSeq(SearchResult(S),
              LAMBDA tw : tw.id \notin processed_tweets /\ ~FromMonitoredAccount(BotState, tw))

\* The user-tweets admissions of the step; the run takes one per candidate
\* it looks at, in the order of the answer.
Fetches == Cardinality(Admissions(log', "user_tweets") \cap NewEntries)

\* The candidates before the k-th that are passed to the Processor.
LikedBefore(C, k) == Cardinality({m \in 1..(k - 1) : ~LowLikes(C[m])})

\* C26 as stated: a candidate below the threshold or without metrics is not
\* added to processed_tweets, and every hashtags run whose search returns
\* it takes a user-tweets admission for it.
C26_RefetchedEveryRun ==
    [][\A S \in AnswersInStep :
          HashtagsRun(S) =>
              LET C == Candidates(S)
              IN \A k \in DOMAIN C :
                    LowLikes(C[k]) =>
                        /\ C[k].id \notin processed_tweets'
                        /\ k <= Fetches
      ]_vars

\* C26 amended: a candidate below the threshold or without metrics is not
\* added to processed_tweets, and a hashtags run whose search returns it
\* takes a user-tweets admission for it unless three items before it in the
\* answer were already passed to the Processor, which ends the run's loop.
C26_RefetchedWhenReached ==
    [][\A S \in AnswersInStep :
          HashtagsRun(S) =>
              LET C == Candidates(S)
              IN /\ Fetches <= Len(C)
                 /\ \A k \in DOMAIN C :
                       LowLikes(C[k]) =>
                           /\ C[k].id \notin processed_tweets'
                           /\ LikedBefore(C, k) < MAX_PER_HASHTAG => k <= Fetches
                 /\ \A k \in DOMAIN C :
                       (LowLikes(C[k]) /\ LikedBefore(C, k) >= MAX_PER_HASHTAG) => k > Fetches
      ]_vars

\* C26 witness: two hashtags runs, each answered with one item that was not
\* liked enough; each run took a user-tweets admission and the dedup set is
\* still empty.
C26_Witness ==
    /\ ran.task = "hashtags" /\ ran.body
    /\ budget = SearchBudget - 2
    /\ Cardinality(Admissions(log, "search")) = 2
    /\ Cardinality(Admissions(log, "user_tweets")) = 2
    /\ processed_tweets = {}
====
